---- MODULE Spec2Model ----
(***************************************************************************)
(* Multi-tenant commitments ledger: the tenant store registry              *)
(* (src/server/db.ts initTenantDb/getTenantDb), the commitments router     *)
(* (src/server/db.ts lines 208-384), the payments router                   *)
(* (src/unnamed/part_003 lines 72-142) and the reports router              *)
(* (src/unnamed/part_002).                                                 *)
(*                                                                         *)
(* Representation.                                                         *)
(*  - String-valued request fields and columns are TLA+ strings; the       *)
(*    string Undefined stands for a missing field (JS undefined, bound by  *)
(*    better-sqlite3 as SQL NULL).                                         *)
(*  - Integer-valued request fields are <<>> (missing) or <<n>>.           *)
(*  - Amounts are integers (minor units); rounding of REAL sums is not     *)
(*    modelled.                                                            *)
(*  - A commit_number "YYYY-MM-NNN" is the triple of its parts between the *)
(*    dashes: <<year string, month string, sequence digits>>; the sequence *)
(*    is kept as its decimal digits so that padding, parseInt and the      *)
(*    string order of ORDER BY are computed on the digits.                 *)
(*  - created_at is the reading of the clock at the insert, in seconds.     *)
(***************************************************************************)
EXTENDS Integers, Sequences, FiniteSets, TLC

VARIABLES
    tzOffset,   \* Date.prototype.getTimezoneOffset() of the server process, minutes
    files,      \* the data directory: path -> tenant store contents
    tenantDbs,  \* db.ts tenantDbs: String(companyId) -> open handle
    opened,     \* number of Database objects constructed by initTenantDb
    created,    \* history: one entry per successful createCommitment
    clock,      \* CURRENT_TIMESTAMP, in seconds since the process started
    master,     \* the contents of master.db
    masterDb,   \* db.ts masterDb: <<>> for null, or <<n>>, the handle of the n-th process
    boots,      \* number of server processes started on the data directory
    inflight    \* per server process: the createCommitment that has read the
                \* latest number and not yet run its INSERT, <<>> when there is none

vars == <<tzOffset, files, tenantDbs, opened, created, clock, master, masterDb, boots,
          inflight>>

----------------------------------------------------------------------------
(* Bounds of the model *)

\* createCommitment is not offered once this many commitments were inserted in all
MaxCommitments == 2
\* recordPayment is not offered once this many payments were inserted in all
MaxPayments == 2
\* the same two limits in the numbering specification
MaxNumbered == 3
MaxNumberedPayments == 1
\* seconds the clock advances in the listing specification
MaxClock == 1
\* createCommitment limit in the listing specification
MaxListed == 2
\* companies and users inserted in all in the master specification, the seeded
\* administrator included
MaxCompanies == 2
MaxUsers == 3
\* createCommitment limit in the race specification
MaxRaced == 3
\* the highest sequence a month has reached in the sequence specification
MaxSequence == 1000
\* createCommitment limit in the validation specification
MaxValidated == 2
\* server processes started one after the other in the boot specification
MaxBoots == 3

----------------------------------------------------------------------------
(* Values *)

Undefined == "undefined"
NullInt == <<>>

\* 'نشط', 'مكتمل', 'ملغي'
StatusActive == "active"
StatusCompleted == "completed"
StatusCancelled == "cancelled"

\* JS truthiness of a string-valued or missing field
Truthy(v) == v \notin {Undefined, ""}

\* String(Number(v)) for a company id taken from the token, the query or the body:
\* the property key of tenantDbs and the ${companyId} of the file name
NumberKey(v) == IF v \in {"0", "1", "2", "3"} THEN v ELSE "NaN"

----------------------------------------------------------------------------
(* Commitment numbering: src/server/db.ts 272-289 *)

\* new Date(due_date) for the date-only ISO form is midnight UTC of that day;
\* anything else offered here is an Invalid Date, <<>>
UtcDate(due_date) ==
    CASE due_date = "2025-01-01" -> <<2025, 1, 1>>
      [] due_date = "2025-03-01" -> <<2025, 3, 1>>
      [] due_date = "2025-03-15" -> <<2025, 3, 15>>
      [] due_date = "2025-04-01" -> <<2025, 4, 1>>
      [] due_date = "2025-04-20" -> <<2025, 4, 20>>
      [] OTHER -> <<>>

DaysInMonth(y, m) ==
    IF m \in {4, 6, 9, 11} THEN 30
    ELSE IF m = 2 THEN (IF y % 4 = 0 /\ (y % 100 # 0 \/ y % 400 = 0) THEN 29 ELSE 28)
    ELSE 31

\* The local calendar day of midnight UTC of utc, for a zone whose
\* getTimezoneOffset() is offset (positive west of Greenwich, |offset| < 1 day)
LocalDate(utc, offset) ==
    IF utc = <<>> THEN <<>>
    ELSE IF offset <= 0 THEN utc
    ELSE IF utc[3] > 1 THEN <<utc[1], utc[2], utc[3] - 1>>
    ELSE IF utc[2] > 1 THEN <<utc[1], utc[2] - 1, DaysInMonth(utc[1], utc[2] - 1)>>
    ELSE <<utc[1] - 1, 12, 31>>

RECURSIVE PadStartStr(_, _)
\* String.prototype.padStart(n, '0') on a string
PadStartStr(s, n) == IF Len(s) >= n THEN s ELSE PadStartStr("0" \o s, n)

\* dueDate.getFullYear() rendered in the template string
YearString(local) == IF local = <<>> THEN "NaN" ELSE ToString(local[1])
\* String(dueDate.getMonth() + 1).padStart(2, '0')
MonthString(local) == IF local = <<>> THEN "NaN" ELSE PadStartStr(ToString(local[2]), 2)

\* `${year}-${month}-` as its two parts
PrefixOfLocal(local) == <<YearString(local), MonthString(local)>>
Prefix(due_date, offset) == PrefixOfLocal(LocalDate(UtcDate(due_date), offset))

RECURSIVE Digits(_)
\* String(n) for n >= 0, as decimal digits
Digits(n) == IF n < 10 THEN <<n>> ELSE Append(Digits(n \div 10), n % 10)

RECURSIVE PadStart(_, _)
\* padStart(n, '0') on a digit string
PadStart(ds, n) == IF Len(ds) >= n THEN ds ELSE PadStart(<<0>> \o ds, n)

RECURSIVE ParseInt(_)
\* parseInt of a digit string
ParseInt(ds) == IF Len(ds) = 0 THEN 0
                ELSE 10 * ParseInt(SubSeq(ds, 1, Len(ds) - 1)) + ds[Len(ds)]

RECURSIVE StrLess(_, _)
\* the string order SQLite's ORDER BY uses (BINARY collation) on digit strings
StrLess(a, b) ==
    IF Len(a) = 0 THEN Len(b) > 0
    ELSE IF Len(b) = 0 THEN FALSE
    ELSE IF a[1] # b[1] THEN a[1] < b[1]
    ELSE StrLess(Tail(a), Tail(b))

\* commit_number LIKE `${prefix}%`
LikePrefix(commit_number, prefix) ==
    commit_number[1] = prefix[1] /\ commit_number[2] = prefix[2]

\* SELECT commit_number ... WHERE commit_number LIKE ? ORDER BY commit_number DESC LIMIT 1
\* as the set of rows it can return (empty or one row)
Latest(commitments, prefix) ==
    LET m == {c \in commitments : LikePrefix(c.commit_number, prefix)}
    IN {c \in m : \A d \in m : ~StrLess(c.commit_number[3], d.commit_number[3])}

\* let nextNum = 1; if (latest) { lastSeq = parseInt(suffix); nextNum = lastSeq + 1 }
\* (every stored suffix is a digit string, so the isNaN branch is never taken)
NextNum(commitments, prefix) ==
    LET latest == Latest(commitments, prefix)
    IN IF latest = {} THEN 1
       ELSE ParseInt((CHOOSE c \in latest : TRUE).commit_number[3]) + 1

\* `${prefix}${String(nextNum).padStart(3, '0')}`
GeneratedCommitNumber(commitments, due_date, offset) ==
    LET prefix == Prefix(due_date, offset)
    IN <<prefix[1], prefix[2], PadStart(Digits(NextNum(commitments, prefix)), 3)>>

----------------------------------------------------------------------------
(* Tenant store registry: src/server/db.ts 93-128 *)

\* CREATE TABLE IF NOT EXISTS commitments / payments on a new file; seq is
\* sqlite_sequence, the AUTOINCREMENT high-water mark of each table
EmptyStore == [commitments |-> {}, payments |-> {},
               seq |-> [commitments |-> 0, payments |-> 0]]

\* path.join(DB_DIR, `tenant_${companyId}.db`)
TenantPath(companyId) == "tenant_" \o companyId \o ".db"

\* The registry is the triple the functions read and write
Registry == [tenantDbs |-> tenantDbs, files |-> files, opened |-> opened]

\* new Database(dbPath) creates the file when absent; the schema is created if absent
InitTenantDb(reg, companyId) ==
    LET dbPath == TenantPath(companyId)
        db == [serial |-> reg.opened + 1, path |-> dbPath]
    IN [tenantDbs |-> (companyId :> db) @@ reg.tenantDbs,
        files |-> IF dbPath \in DOMAIN reg.files THEN reg.files
                  ELSE (dbPath :> EmptyStore) @@ reg.files,
        opened |-> reg.opened + 1]

\* (mutant) the cache is not consulted
GetTenantDb_NoCache(reg, companyId) == InitTenantDb(reg, companyId)

\* if (!tenantDbs[companyId]) return initTenantDb(companyId); return tenantDbs[companyId]
GetTenantDb(reg, companyId) ==
    IF companyId \notin DOMAIN reg.tenantDbs THEN InitTenantDb(reg, companyId) ELSE reg

\* The tables of the store a handle is open on
StoreOf(reg, companyId) == reg.files[reg.tenantDbs[companyId].path]

\* The registry after a statement sequence left the store of companyId as store
WithStore(reg, companyId, store) ==
    [reg EXCEPT !.files[reg.tenantDbs[companyId].path] = store]

----------------------------------------------------------------------------
(* Request routing shared by the ledger handlers *)

\* if (!companyId && req.user.role !== 'admin') return res.status(403)
NoCompanyLinked(user) == ~Truthy(user.company_id) /\ user.role # "admin"

\* (mutant) the supplied company_id is preferred to the token's
TargetCompanyId_SuppliedFirst(user, supplied) ==
    IF Truthy(supplied) THEN supplied ELSE user.company_id

\* const targetCompanyId = companyId || req.query.company_id (or req.body.company_id)
TargetCompanyId(user, supplied) ==
    IF Truthy(user.company_id) THEN user.company_id ELSE supplied

\* res.status(status).json(body), with the registry the handler leaves behind
Response(reg, status, body) == [reg |-> reg, status |-> status, body |-> body]

\* The tenant tables a path holds, an absent file holding none
Tables(fs, path) ==
    IF path \in DOMAIN fs
    THEN [commitments |-> fs[path].commitments, payments |-> fs[path].payments]
    ELSE [commitments |-> {}, payments |-> {}]

----------------------------------------------------------------------------
(* Statements on a tenant store *)

RECURSIVE SumAmount(_)
\* payments.reduce((sum, p) => sum + p.amount, 0) and SELECT SUM(amount)
SumAmount(rows) ==
    IF rows = {} THEN 0
    ELSE LET r == CHOOSE x \in rows : TRUE IN r.amount + SumAmount(rows \ {r})

\* SELECT * FROM payments WHERE commitment_id = ?
PaymentsOf(store, id) == {p \in store.payments : p.commitment_id = id}

\* INSERT INTO commitments (...) VALUES (...): the constraints of the table
\* (commit_number UNIQUE NOT NULL, due_date / account / amount NOT NULL)
CommitmentInsertOk(store, commit_number, body) ==
    /\ body.due_date # Undefined
    /\ body.account # Undefined
    /\ body.amount # NullInt
    /\ \A c \in store.commitments : c.commit_number # commit_number

\* The store after the insert; the row id is AUTOINCREMENT, status defaults by
\* status || 'نشط', created_at by DEFAULT CURRENT_TIMESTAMP
InsertCommitment(store, commit_number, body, timestamp) ==
    LET id == store.seq.commitments + 1
        row == [id |-> id, commit_number |-> commit_number,
                due_date |-> body.due_date, account |-> body.account,
                description |-> body.description,
                amount |-> body.amount[1],
                status |-> IF Truthy(body.status) THEN body.status ELSE StatusActive,
                created_at |-> timestamp]
    IN [store EXCEPT !.commitments = @ \cup {row}, !.seq.commitments = id]

\* UPDATE commitments SET due_date = ?, account = ?, description = ?, amount = ?,
\* status = ? WHERE id = ?: fails on a NOT NULL column only when a row matches
CommitmentUpdateOk(store, id, body) ==
    (\E c \in store.commitments : c.id = id)
        => /\ body.due_date # Undefined
           /\ body.account # Undefined
           /\ body.amount # NullInt

UpdateCommitmentRow(store, id, body) ==
    [store EXCEPT !.commitments =
        {IF c.id = id
         THEN [c EXCEPT !.due_date = body.due_date, !.account = body.account,
                        !.description = body.description,
                        !.amount = body.amount[1], !.status = body.status]
         ELSE c : c \in @}]

\* (mutant) the payments of the commitment are not counted
HasPayments_Never(store, id) == FALSE

\* (mutant) one payment does not count
HasPayments_Several(store, id) == Cardinality(PaymentsOf(store, id)) > 1

\* if (payments.count > 0) return res.status(400)
HasPayments(store, id) == Cardinality(PaymentsOf(store, id)) > 0

\* DELETE FROM commitments WHERE id = ?
DeleteCommitmentRow(store, id) ==
    [store EXCEPT !.commitments = {c \in @ : c.id # id}]

\* INSERT INTO payments (...): NOT NULL columns, and the FOREIGN KEY on
\* commitment_id when the connection enforces foreign keys
PaymentInsertOk(store, body, foreignKeys) ==
    /\ body.commitment_id # NullInt
    /\ body.amount # NullInt
    /\ body.method # Undefined
    /\ body.payment_date # Undefined
    /\ foreignKeys => \E c \in store.commitments : c.id = body.commitment_id[1]

InsertPayment(store, body) ==
    LET id == store.seq.payments + 1
        row == [id |-> id, commitment_id |-> body.commitment_id[1],
                amount |-> body.amount[1], method |-> body.method,
                payment_date |-> body.payment_date]
    IN [store EXCEPT !.payments = @ \cup {row}, !.seq.payments = id]

\* (mutant) the status is updated only when the sum exceeds the amount
UpdateStatusIfPaid_Strict(store, commitment_id) ==
    LET commitment == CHOOSE c \in store.commitments : c.id = commitment_id
        totalPaid == SumAmount(PaymentsOf(store, commitment_id))
    IN IF totalPaid > commitment.amount
       THEN [store EXCEPT !.commitments =
                {IF c.id = commitment_id THEN [c EXCEPT !.status = StatusCompleted]
                 ELSE c : c \in @}]
       ELSE store

\* (mutant) the status is updated only when the sum equals the amount
UpdateStatusIfPaid_Exact(store, commitment_id) ==
    LET commitment == CHOOSE c \in store.commitments : c.id = commitment_id
        totalPaid == SumAmount(PaymentsOf(store, commitment_id))
    IN IF totalPaid = commitment.amount
       THEN [store EXCEPT !.commitments =
                {IF c.id = commitment_id THEN [c EXCEPT !.status = StatusCompleted]
                 ELSE c : c \in @}]
       ELSE store

\* if (totalPaid.total >= commitment.amount) UPDATE commitments SET status = 'مكتمل'
UpdateStatusIfPaid(store, commitment_id) ==
    LET commitment == CHOOSE c \in store.commitments : c.id = commitment_id
        totalPaid == SumAmount(PaymentsOf(store, commitment_id))
    IN IF totalPaid >= commitment.amount
       THEN [store EXCEPT !.commitments =
                {IF c.id = commitment_id THEN [c EXCEPT !.status = StatusCompleted]
                 ELSE c : c \in @}]
       ELSE store

\* (mutant) the statements run before the failure are kept
Rollback_Keep(before, partial) == partial

\* db.prepare('ROLLBACK').run(): the store as it was at BEGIN TRANSACTION
Rollback(before, partial) == before

\* (mutant) a commitment that is not found does not fail the transaction
PaymentTransaction_NoLookup(store, body, foreignKeys) ==
    IF ~PaymentInsertOk(store, body, foreignKeys)
    THEN [ok |-> FALSE, store |-> Rollback(store, store)]
    ELSE LET inserted == InsertPayment(store, body)
         IN IF ~\E c \in inserted.commitments : c.id = body.commitment_id[1]
            THEN [ok |-> TRUE, store |-> inserted]
            ELSE [ok |-> TRUE,
                  store |-> UpdateStatusIfPaid(inserted, body.commitment_id[1])]

\* The transaction of POST /payments: [ok, store]
PaymentTransaction(store, body, foreignKeys) ==
    IF ~PaymentInsertOk(store, body, foreignKeys)
    THEN [ok |-> FALSE, store |-> Rollback(store, store)]
    ELSE LET inserted == InsertPayment(store, body)
         IN IF ~\E c \in inserted.commitments : c.id = body.commitment_id[1]
            \* commitment is undefined: reading commitment.amount throws
            THEN [ok |-> FALSE, store |-> Rollback(store, inserted)]
            ELSE [ok |-> TRUE,
                  store |-> UpdateStatusIfPaid(inserted, body.commitment_id[1])]

\* (mutant) the payments are not restricted to the commitment
SearchPayload_AllPayments(store, commitment) ==
    LET payments == store.payments
        totalPaid == SumAmount(payments)
    IN [commitment |-> commitment, payments |-> payments, totalPaid |-> totalPaid,
        remainingAmount |-> commitment.amount - totalPaid]

\* The payload of GET /commitments/search/:number for a found commitment
SearchPayload(store, commitment) ==
    LET payments == PaymentsOf(store, commitment.id)
        totalPaid == SumAmount(payments)
    IN [commitment |-> commitment, payments |-> payments, totalPaid |-> totalPaid,
        remainingAmount |-> commitment.amount - totalPaid]

----------------------------------------------------------------------------
(* Ordering of a result set: src/server/db.ts 240-251 *)

\* const allowedSortFields = [...]
AllowedSortFields == {"due_date", "created_at", "amount", "description", "status"}

\* Position of a due_date in SQLite's order of TEXT values (BINARY collation)
DueDateRank(v) ==
    CASE v = "2025-01-01" -> 1
      [] v = "2025-03-01" -> 2
      [] v = "2025-03-15" -> 3
      [] v = "2025-04-01" -> 4
      [] v = "2025-04-20" -> 5
      [] OTHER -> 6

\* Position of a status: NULL first, then the UTF-8 order of 'مكتمل' < 'ملغي' < 'نشط'
StatusRank(v) ==
    CASE v = Undefined -> 0
      [] v = StatusCompleted -> 1
      [] v = StatusCancelled -> 2
      [] OTHER -> 3

\* Position of a description: NULL first, then the order of the strings
DescriptionRank(v) ==
    CASE v = Undefined -> 0
      [] v = "a" -> 1
      [] OTHER -> 2

\* The value ORDER BY compares, as its position in the column's order
SortKey(c, sortBy) ==
    CASE sortBy = "due_date" -> DueDateRank(c.due_date)
      [] sortBy = "created_at" -> c.created_at
      [] sortBy = "amount" -> c.amount
      [] sortBy = "description" -> DescriptionRank(c.description)
      [] sortBy = "status" -> StatusRank(c.status)

\* The arrays that hold each row of rows once: what a SELECT without ORDER BY
\* may return, the order being SQLite's choice (the table scan's)
Arrays(rows) ==
    {a \in [1..Cardinality(rows) -> rows] :
        \A i, j \in 1..Cardinality(rows) : i # j => a[i] # a[j]}

\* ORDER BY ${sortBy} ASC|DESC; rows with equal keys come in any order
Ordered(rows, sortBy, ascending) ==
    {a \in Arrays(rows) :
        \A i \in 1..(Cardinality(rows) - 1) :
            IF ascending THEN SortKey(a[i], sortBy) <= SortKey(a[i + 1], sortBy)
            ELSE SortKey(a[i], sortBy) >= SortKey(a[i + 1], sortBy)}

----------------------------------------------------------------------------
(* Handlers.  Each takes the registry it runs on, the decoded token (user), *)
(* the company_id supplied in the query string or body and the handler's   *)
(* own parameters, and yields its Response.                                *)

\* GET /api/commitments  (src/server/db.ts 213-255); the body of a 200 is the
\* set of arrays the query may return
ListCommitments(reg0, user, company_id, status, sortByParam, orderParam) ==
    LET targetCompanyId == TargetCompanyId(user, company_id)
    IN IF NoCompanyLinked(user) THEN Response(reg0, 403, {})
       ELSE IF ~Truthy(targetCompanyId)
       THEN (IF user.role = "admin" THEN Response(reg0, 200, {<<>>})
             ELSE Response(reg0, 400, {}))
       ELSE LET key == NumberKey(targetCompanyId)
                reg == GetTenantDb(reg0, key)
                rows == {c \in StoreOf(reg, key).commitments :
                            Truthy(status) => c.status = status}
                sortBy == IF Truthy(sortByParam) THEN sortByParam ELSE "created_at"
                order == IF Truthy(orderParam) THEN orderParam ELSE "DESC"
            IN IF sortBy \in AllowedSortFields
               THEN Response(reg, 200, Ordered(rows, sortBy, order = "ASC"))
               ELSE Response(reg, 200, Arrays(rows))

\* stmt.run(generatedCommitNumber, ...) and the response  (src/server/db.ts 291-300)
InsertGenerated(reg, key, generatedCommitNumber, body, timestamp) ==
    LET store == StoreOf(reg, key)
    IN IF ~CommitmentInsertOk(store, generatedCommitNumber, body)
       THEN Response(reg, 500, {})
       ELSE LET after == InsertCommitment(store, generatedCommitNumber, body, timestamp)
            IN Response(WithStore(reg, key, after), 200, [id |-> after.seq.commitments])

\* POST /api/commitments  (src/server/db.ts 257-301)
CreateCommitment(reg0, offset, timestamp, user, company_id, body) ==
    LET targetCompanyId == TargetCompanyId(user, company_id)
    IN IF NoCompanyLinked(user) THEN Response(reg0, 403, {})
       ELSE IF ~Truthy(targetCompanyId) THEN Response(reg0, 400, {})
       ELSE LET key == NumberKey(targetCompanyId)
                reg == GetTenantDb(reg0, key)
                generatedCommitNumber ==
                    GeneratedCommitNumber(StoreOf(reg, key).commitments,
                                          body.due_date, offset)
            IN InsertGenerated(reg, key, generatedCommitNumber, body, timestamp)

\* GET /api/commitments/search/:number  (src/server/db.ts 303-333)
SearchByNumber(reg0, user, company_id, number) ==
    LET targetCompanyId == TargetCompanyId(user, company_id)
    IN IF NoCompanyLinked(user) THEN Response(reg0, 403, {})
       ELSE LET key == NumberKey(targetCompanyId)
                reg == GetTenantDb(reg0, key)
                store == StoreOf(reg, key)
                found == {c \in store.commitments : c.commit_number = number}
            IN IF found = {} THEN Response(reg, 404, {})
               ELSE Response(reg, 200, SearchPayload(store, CHOOSE c \in found : TRUE))

\* PUT /api/commitments/:id  (src/server/db.ts 335-358)
UpdateCommitment(reg0, user, company_id, id, body) ==
    LET targetCompanyId == TargetCompanyId(user, company_id)
    IN IF NoCompanyLinked(user) THEN Response(reg0, 403, {})
       ELSE LET key == NumberKey(targetCompanyId)
                reg == GetTenantDb(reg0, key)
                store == StoreOf(reg, key)
            IN IF ~CommitmentUpdateOk(store, id, body) THEN Response(reg, 500, {})
               ELSE Response(WithStore(reg, key, UpdateCommitmentRow(store, id, body)),
                             200, [success |-> TRUE])

\* DELETE /api/commitments/:id  (src/server/db.ts 360-382)
DeleteCommitment(reg0, user, company_id, id) ==
    LET targetCompanyId == TargetCompanyId(user, company_id)
    IN IF NoCompanyLinked(user) THEN Response(reg0, 403, {})
       ELSE LET key == NumberKey(targetCompanyId)
                reg == GetTenantDb(reg0, key)
                store == StoreOf(reg, key)
            IN IF HasPayments(store, id) THEN Response(reg, 400, {})
               ELSE Response(WithStore(reg, key, DeleteCommitmentRow(store, id)),
                             200, [success |-> TRUE])

\* GET /api/payments  (src/unnamed/part_003 77-98); the ORDER BY is not represented
ListPayments(reg0, user, company_id) ==
    LET targetCompanyId == TargetCompanyId(user, company_id)
    IN IF NoCompanyLinked(user) THEN Response(reg0, 403, {})
       ELSE LET key == NumberKey(targetCompanyId)
                reg == GetTenantDb(reg0, key)
                store == StoreOf(reg, key)
            \* FROM payments p JOIN commitments c ON p.commitment_id = c.id
            IN Response(reg, 200,
                   {[payment |-> pc[1], commit_number |-> pc[2].commit_number] :
                       pc \in {x \in store.payments \X store.commitments :
                                  x[1].commitment_id = x[2].id}})

\* POST /api/payments  (src/unnamed/part_003 100-140); foreignKeys is the
\* foreign_keys pragma of the connection
RecordPayment(reg0, user, company_id, body, foreignKeys) ==
    LET targetCompanyId == TargetCompanyId(user, company_id)
    IN IF NoCompanyLinked(user) THEN Response(reg0, 403, {})
       ELSE LET key == NumberKey(targetCompanyId)
                reg == GetTenantDb(reg0, key)
                tx == PaymentTransaction(StoreOf(reg, key), body, foreignKeys)
            IN IF tx.ok THEN Response(WithStore(reg, key, tx.store), 200,
                                      [success |-> TRUE])
               ELSE Response(WithStore(reg, key, tx.store), 500, {})

\* GET /api/reports/stats  (src/unnamed/part_002 6-38)
Stats(reg0, user, company_id) ==
    LET targetCompanyId == TargetCompanyId(user, company_id)
    IN IF NoCompanyLinked(user) THEN Response(reg0, 403, {})
       ELSE IF ~Truthy(targetCompanyId) THEN Response(reg0, 400, {})
       ELSE LET key == NumberKey(targetCompanyId)
                reg == GetTenantDb(reg0, key)
                rows == StoreOf(reg, key).commitments
            IN Response(reg, 200,
                 [total_count |-> Cardinality(rows),
                  active_count |-> Cardinality({c \in rows : c.status = StatusActive}),
                  completed_count |->
                      Cardinality({c \in rows : c.status = StatusCompleted}),
                  total_amount |-> SumAmount(rows)])

----------------------------------------------------------------------------
(* Master store: src/server/db.ts 15-91.  A company row keeps the two NOT    *)
(* NULL names and currency_code, a nullable integer is <<>> or <<n>>, and a  *)
(* password hash is the pair <<"bcrypt", password>>.                         *)

\* bcrypt.hashSync(password, 10) of a string
HashSync(password) == <<"bcrypt", password>>
\* bcrypt.compareSync(password, hash)
CompareSync(password, hash) == hash = HashSync(password)

\* CREATE TABLE IF NOT EXISTS companies / currencies / users on a new master.db
EmptyMaster == [companies |-> {}, users |-> {}, currencies |-> {},
                seq |-> [companies |-> 0, users |-> 0]]

\* defaultCurrencies, by code
DefaultCurrencies == {"SAR", "USD", "EUR", "AED", "KWD", "BHD", "OMR", "JOD", "EGP"}
CurrencyRow(code, name_ar, name_en, symbol) ==
    [code |-> code, name_ar |-> name_ar, name_en |-> name_en, symbol |-> symbol]

\* INSERT INTO users (...): the constraints of the table (username UNIQUE NOT
\* NULL, password NOT NULL, company_id REFERENCES companies when enforced)
UserInsertOk(db, username, company_id, foreignKeys) ==
    /\ username # Undefined
    /\ \A u \in db.users : u.username # username
    /\ (foreignKeys /\ company_id # NullInt)
          => \E c \in db.companies : c.id = company_id[1]

\* The store after the insert; the row id is AUTOINCREMENT
InsertUser(db, username, hashedPassword, company_id, role, is_active) ==
    LET id == db.seq.users + 1
        row == [id |-> id, username |-> username, password |-> hashedPassword,
                company_id |-> company_id, role |-> role, is_active |-> is_active]
    IN [db EXCEPT !.users = @ \cup {row}, !.seq.users = id]

\* (mutant) the default currencies that are missing are inserted at every boot
InitMasterDb_Reseed(db) ==
    LET seeded == IF \E u \in db.users : u.username = "admin" THEN db
                  ELSE InsertUser(db, "admin", HashSync("admin"), NullInt, "admin", 1)
        missing == DefaultCurrencies \ {x.code : x \in seeded.currencies}
    IN [seeded EXCEPT !.currencies =
           @ \cup {CurrencyRow(code, "name_ar", "name_en", "symbol") : code \in missing}]

\* initMasterDb on the contents of master.db: the admin user is seeded when no
\* user is named admin, the currencies when the table is empty
InitMasterDb(db) ==
    LET seeded == IF \E u \in db.users : u.username = "admin" THEN db
                  ELSE InsertUser(db, "admin", HashSync("admin"), NullInt, "admin", 1)
    IN IF Cardinality(seeded.currencies) = 0
       THEN [seeded EXCEPT !.currencies =
                {CurrencyRow(code, "name_ar", "name_en", "symbol") :
                    code \in DefaultCurrencies}]
       ELSE seeded

\* initMasterDb called in the process numbered process, whose masterDb is handle:
\* if (masterDb) return masterDb; masterDb = new Database(...); ...; return masterDb
InitMasterDbCall(handle, db, process) ==
    IF handle # <<>> THEN [masterDb |-> handle, master |-> db]
    ELSE [masterDb |-> <<process>>, master |-> InitMasterDb(db)]

\* getMasterDb: if (!masterDb) return initMasterDb(); return masterDb
GetMasterDb(handle, db, process) ==
    IF handle = <<>> THEN InitMasterDbCall(handle, db, process)
    ELSE [masterDb |-> handle, master |-> db]

\* INSERT INTO companies (...): name_en and name_ar are NOT NULL
CompanyInsertOk(body) == body.name_en # Undefined /\ body.name_ar # Undefined

\* The store after the insert, currency_code being currency_code || 'SAR'
InsertCompany(db, body) ==
    LET id == db.seq.companies + 1
        row == [id |-> id, name_en |-> body.name_en, name_ar |-> body.name_ar,
                currency_code |-> IF Truthy(body.currency_code)
                                  THEN body.currency_code ELSE "SAR"]
    IN [db EXCEPT !.companies = @ \cup {row}, !.seq.companies = id]

\* res.status(status).json(body), with the master store the handler leaves behind
MasterResponse(db, status, body) == [master |-> db, status |-> status, body |-> body]

\* The payload jwt.sign is given; company_id is null or the number, held as the
\* ledger handlers read it
TokenOf(user) ==
    [id |-> user.id, username |-> user.username, role |-> user.role,
     company_id |-> IF user.company_id = NullInt THEN Undefined
                    ELSE ToString(user.company_id[1])]

----------------------------------------------------------------------------
(* Authentication and the route guards: src/unnamed/part_000 66-109.  The   *)
(* credentials of a request say whether an Authorization token is present,   *)
(* whether jwt.verify accepts it, and the payload it carries.                *)

Bearer(user) == [token |-> TRUE, verified |-> TRUE, user |-> user]
NoToken == [token |-> FALSE, verified |-> FALSE,
            user |-> [id |-> 0, username |-> Undefined, role |-> Undefined,
                      company_id |-> Undefined]]

\* authenticateToken: the status it answers with, or 0 when it calls next()
AuthenticateToken(auth) ==
    IF ~auth.token THEN 401 ELSE IF ~auth.verified THEN 403 ELSE 0

\* authorizeAdmin
AuthorizeAdmin(auth) == IF auth.user.role = "admin" THEN 0 ELSE 403

\* app.use('/api/companies' | '/api/users', authenticateToken, authorizeAdmin, ...)
AdminRoute(auth) ==
    IF AuthenticateToken(auth) # 0 THEN AuthenticateToken(auth) ELSE AuthorizeAdmin(auth)

\* app.use('/api/currencies', authenticateToken, currenciesRoutes)
TokenRoute(auth) == AuthenticateToken(auth)

----------------------------------------------------------------------------
(* Master handlers.  Each takes the master store it runs on, the request's   *)
(* credentials where the route is guarded, and its parameters.               *)

\* POST /api/auth/login  (src/server/routes/auth.ts 9-42)
Login(db, body) ==
    LET found == {u \in db.users : u.username = body.username}
    IN IF found = {} THEN MasterResponse(db, 401, {})
       ELSE LET user == CHOOSE u \in found : TRUE
            IN \* bcrypt.compareSync throws on a password that is not a string
               IF body.password = Undefined THEN MasterResponse(db, 500, {})
               ELSE IF ~CompareSync(body.password, user.password)
               THEN MasterResponse(db, 401, {})
               ELSE IF user.is_active = 0 THEN MasterResponse(db, 403, {})
               ELSE MasterResponse(db, 200, [token |-> TokenOf(user)])

\* (mutant) the statements run before the failure are kept
RollbackMaster_Keep(before, partial) == partial

\* db.exec('ROLLBACK'): the master store as it was at BEGIN TRANSACTION
RollbackMaster(before, partial) == before

\* POST /api/auth/register  (src/server/routes/auth.ts 44-96)
Register(db, body) ==
    IF ~CompanyInsertOk(body) THEN MasterResponse(RollbackMaster(db, db), 500, {})
    ELSE LET withCompany == InsertCompany(db, body)
             companyId == <<withCompany.seq.companies>>
         IN \* bcrypt.hashSync throws on a password that is not a string
            IF \/ body.password = Undefined
               \/ ~UserInsertOk(withCompany, body.username, companyId, TRUE)
            THEN MasterResponse(RollbackMaster(db, withCompany), 500, {})
            ELSE MasterResponse(InsertUser(withCompany, body.username,
                                           HashSync(body.password), companyId,
                                           "admin", 1),
                                200, [success |-> TRUE])

\* POST /api/companies  (src/server/routes/auth.ts 139-166)
CreateCompany(db, auth, body) ==
    IF AdminRoute(auth) # 0 THEN MasterResponse(db, AdminRoute(auth), {})
    ELSE IF ~CompanyInsertOk(body) THEN MasterResponse(db, 500, {})
    ELSE LET after == InsertCompany(db, body)
         IN MasterResponse(after, 200, [id |-> after.seq.companies])

\* PUT /api/companies/:id  (src/server/routes/auth.ts 168-196): currency_code is
\* stored as sent, without a default
UpdateCompany(db, auth, id, body) ==
    IF AdminRoute(auth) # 0 THEN MasterResponse(db, AdminRoute(auth), {})
    ELSE IF (\E c \in db.companies : c.id = id) /\ ~CompanyInsertOk(body)
    THEN MasterResponse(db, 500, {})
    ELSE MasterResponse(
            [db EXCEPT !.companies =
                {IF c.id = id
                 THEN [c EXCEPT !.name_en = body.name_en, !.name_ar = body.name_ar,
                                !.currency_code = body.currency_code]
                 ELSE c : c \in @}],
            200, [success |-> TRUE])

\* (mutant) the users of the company are not counted
CompanyHasUsers_Never(db, companyId) == FALSE

\* if (usersCount.count > 0) return res.status(400)
CompanyHasUsers(db, companyId) ==
    Cardinality({u \in db.users : u.company_id = <<companyId>>}) > 0

\* DELETE /api/companies/:id  (src/server/routes/auth.ts 198-225)
DeleteCompany(db, auth, id) ==
    IF AdminRoute(auth) # 0 THEN MasterResponse(db, AdminRoute(auth), {})
    ELSE IF ~\E c \in db.companies : c.id = id THEN MasterResponse(db, 404, {})
    ELSE IF CompanyHasUsers(db, id) THEN MasterResponse(db, 400, {})
    ELSE MasterResponse([db EXCEPT !.companies = {c \in @ : c.id # id}],
                        200, [success |-> TRUE])

\* POST /api/users  (src/server/routes/users.ts 22-39)
CreateUser(db, auth, body, foreignKeys) ==
    IF AdminRoute(auth) # 0 THEN MasterResponse(db, AdminRoute(auth), {})
    ELSE IF \/ body.password = Undefined
            \/ ~UserInsertOk(db, body.username, body.company_id, foreignKeys)
    THEN MasterResponse(db, 500, {})
    ELSE LET after == InsertUser(db, body.username, HashSync(body.password),
                                 body.company_id,
                                 IF Truthy(body.role) THEN body.role ELSE "user", 1)
         IN MasterResponse(after, 200, [id |-> after.seq.users])

\* UPDATE users SET username = ?, company_id = ?, role = ?, is_active = ? [,
\* password = ?] WHERE id = ?: the constraints bind only when a row matches
UserUpdateOk(db, id, body, foreignKeys) ==
    (\E u \in db.users : u.id = id)
        => /\ body.username # Undefined
           /\ \A u \in db.users : u.id # id => u.username # body.username
           /\ (foreignKeys /\ body.company_id # NullInt)
                 => \E c \in db.companies : c.id = body.company_id[1]

\* PUT /api/users/:id  (src/server/routes/users.ts 41-63)
UpdateUser(db, auth, id, body, foreignKeys) ==
    IF AdminRoute(auth) # 0 THEN MasterResponse(db, AdminRoute(auth), {})
    ELSE IF ~UserUpdateOk(db, id, body, foreignKeys) THEN MasterResponse(db, 500, {})
    ELSE MasterResponse(
            [db EXCEPT !.users =
                {IF u.id = id
                 THEN [u EXCEPT !.username = body.username,
                                !.company_id = body.company_id,
                                !.role = body.role,
                                !.is_active = IF body.is_active = NullInt THEN 1
                                              ELSE body.is_active[1],
                                !.password = IF Truthy(body.password)
                                             THEN HashSync(body.password) ELSE @]
                 ELSE u : u \in @}],
            200, [success |-> TRUE])

\* DELETE /api/users/:id  (src/server/routes/users.ts 65-98)
DeleteUser(db, auth, id) ==
    IF AdminRoute(auth) # 0 THEN MasterResponse(db, AdminRoute(auth), {})
    ELSE IF auth.user.id = id THEN MasterResponse(db, 400, {})
    ELSE IF ~\E u \in db.users : u.id = id THEN MasterResponse(db, 404, {})
    ELSE IF (CHOOSE u \in db.users : u.id = id).username = "admin"
    THEN MasterResponse(db, 400, {})
    ELSE MasterResponse([db EXCEPT !.users = {u \in @ : u.id # id}],
                        200, [success |-> TRUE])

\* INSERT INTO currencies (...): code is the primary key, the rest NOT NULL
CurrencyInsertOk(db, body) ==
    /\ body.name_ar # Undefined
    /\ body.name_en # Undefined
    /\ body.symbol # Undefined
    /\ body.code # Undefined => \A x \in db.currencies : x.code # body.code

\* POST /api/currencies  (src/unnamed/part_003 16-31)
CreateCurrency(db, auth, body) ==
    IF TokenRoute(auth) # 0 THEN MasterResponse(db, TokenRoute(auth), {})
    ELSE IF ~CurrencyInsertOk(db, body) THEN MasterResponse(db, 500, {})
    ELSE MasterResponse(
            [db EXCEPT !.currencies =
                @ \cup {CurrencyRow(body.code, body.name_ar, body.name_en, body.symbol)}],
            200, [success |-> TRUE])

\* PUT /api/currencies/:code  (src/unnamed/part_003 33-50)
UpdateCurrency(db, auth, code, body) ==
    IF TokenRoute(auth) # 0 THEN MasterResponse(db, TokenRoute(auth), {})
    ELSE IF /\ \E x \in db.currencies : x.code = code
            /\ Undefined \in {body.name_ar, body.name_en, body.symbol}
    THEN MasterResponse(db, 500, {})
    ELSE MasterResponse(
            [db EXCEPT !.currencies =
                {IF x.code = code
                 THEN CurrencyRow(code, body.name_ar, body.name_en, body.symbol)
                 ELSE x : x \in @}],
            200, [success |-> TRUE])

\* (mutant) the companies that use the currency are not counted
CurrencyInUse_Never(db, code) == FALSE

\* if (companiesCount.count > 0) return res.status(400)
CurrencyInUse(db, code) ==
    Cardinality({c \in db.companies : c.currency_code = code}) > 0

\* DELETE /api/currencies/:code  (src/unnamed/part_003 52-68)
DeleteCurrency(db, auth, code) ==
    IF TokenRoute(auth) # 0 THEN MasterResponse(db, TokenRoute(auth), {})
    ELSE IF CurrencyInUse(db, code) THEN MasterResponse(db, 400, {})
    ELSE MasterResponse([db EXCEPT !.currencies = {x \in @ : x.code # code}],
                        200, [success |-> TRUE])

----------------------------------------------------------------------------
(* Requests offered to the handlers *)

\* Decoded tokens: a user of company 1, the registered admin of company 2, the
\* system administrator (role admin, no company) and a user linked to no company
CompanyUser == [id |-> 2, role |-> "user", company_id |-> "1"]
CompanyAdmin == [id |-> 3, role |-> "admin", company_id |-> "2"]
SystemAdmin == [id |-> 1, role |-> "admin", company_id |-> Undefined]
UnlinkedUser == [id |-> 4, role |-> "user", company_id |-> Undefined]
Users == {CompanyUser, CompanyAdmin, SystemAdmin, UnlinkedUser}

\* company_id as supplied in the query string or the body
Supplied == {Undefined, "1", "2"}

\* Server processes that serve the same data directory
Processes == {1, 2}

\* Request bodies and parameters; each specification offers a subset
Accounts == {"rent"}
Methods == {"cash"}
PaymentDates == {"2025-03-10"}
Descriptions == {Undefined}
CommitmentBody(due_dates, amounts, statuses) ==
    [due_date : due_dates, account : Accounts, description : Descriptions,
     amount : amounts, status : statuses]
PaymentBody(ids, amounts, methods) ==
    [commitment_id : ids, amount : amounts, method : methods,
     payment_date : PaymentDates]
Number(year, month, n) == <<year, month, PadStart(Digits(n), 3)>>

----------------------------------------------------------------------------
(* Specification *)

Init ==
    /\ tzOffset \in {0 - 180, 300}
    /\ files = <<>>
    /\ tenantDbs = <<>>
    /\ opened = 0
    /\ created = <<>>
    /\ clock = 0
    /\ master = InitMasterDb(EmptyMaster)
    /\ masterDb = <<1>>
    /\ boots = 1
    /\ inflight = [p \in Processes |-> <<>>]

\* The registry a handler leaves behind becomes the state
Apply(response) ==
    /\ tenantDbs' = response.reg.tenantDbs
    /\ files' = response.reg.files
    /\ opened' = response.reg.opened
    /\ UNCHANGED <<tzOffset, clock, master, masterDb, boots, inflight>>

RECURSIVE SumSeq(_, _, _)
\* Rows inserted so far in one table over all stores
SumSeq(fs, paths, table) ==
    IF paths = {} THEN 0
    ELSE LET q == CHOOSE x \in paths : TRUE
         IN fs[q].seq[table] + SumSeq(fs, paths \ {q}, table)
Inserted(table) == SumSeq(files, DOMAIN files, table)

ListCommitmentsRequest(user, company_id, status, sort) ==
    /\ Apply(ListCommitments(Registry, user, company_id, status, sort[1], sort[2]))
    /\ UNCHANGED created

CreateCommitmentRequest(user, company_id, body) ==
    LET response == CreateCommitment(Registry, tzOffset, clock, user, company_id, body)
        key == NumberKey(TargetCompanyId(user, company_id))
    IN /\ Apply(response)
       /\ created' =
            IF response.status = 200
            THEN LET row == CHOOSE c \in StoreOf(response.reg, key).commitments :
                                c.id = response.body.id
                 IN Append(created, [store |-> key, id |-> row.id,
                                     due_date |-> body.due_date,
                                     commit_number |-> row.commit_number])
            ELSE created

SearchByNumberRequest(user, company_id, number) ==
    /\ Apply(SearchByNumber(Registry, user, company_id, number))
    /\ UNCHANGED created

UpdateCommitmentRequest(user, company_id, id, body) ==
    /\ Apply(UpdateCommitment(Registry, user, company_id, id, body))
    /\ UNCHANGED created

DeleteCommitmentRequest(user, company_id, id) ==
    /\ Apply(DeleteCommitment(Registry, user, company_id, id))
    /\ UNCHANGED created

ListPaymentsRequest(user, company_id) ==
    /\ Apply(ListPayments(Registry, user, company_id))
    /\ UNCHANGED created

RecordPaymentRequest(user, company_id, body, foreignKeys) ==
    /\ Apply(RecordPayment(Registry, user, company_id, body, foreignKeys))
    /\ UNCHANGED created

StatsRequest(user, company_id) ==
    /\ Apply(Stats(Registry, user, company_id))
    /\ UNCHANGED created

\* The requests a specification offers: callers are <<user, company_id>> pairs and
\* in holds the values of the other parameters
Requests(callers, in, maxCommitments, maxPayments) ==
    \E caller \in callers :
        LET user == caller[1]
            company_id == caller[2]
        IN \/ \E status \in in.statuses, sort \in in.sorts :
                 ListCommitmentsRequest(user, company_id, status, sort)
           \/ \E body \in in.creates :
                 /\ Inserted("commitments") < maxCommitments
                 /\ CreateCommitmentRequest(user, company_id, body)
           \/ \E number \in in.numbers : SearchByNumberRequest(user, company_id, number)
           \/ \E id \in in.ids, body \in in.updates :
                 UpdateCommitmentRequest(user, company_id, id, body)
           \/ \E id \in in.ids : DeleteCommitmentRequest(user, company_id, id)
           \/ ListPaymentsRequest(user, company_id)
           \/ \E body \in in.payments, foreignKeys \in BOOLEAN :
                 /\ Inserted("payments") < maxPayments
                 /\ RecordPaymentRequest(user, company_id, body, foreignKeys)
           \/ StatsRequest(user, company_id)

(* Tenancy: every caller against every supplied company_id, few field values *)
TenancyCallers == Users \X Supplied
TenancyInputs ==
    [statuses |-> {Undefined},
     sorts |-> {<<Undefined, Undefined>>},
     creates |-> CommitmentBody({"2025-03-15"}, {<<2>>}, {Undefined}),
     numbers |-> {Number("2025", "03", 1)},
     ids |-> {1},
     updates |-> CommitmentBody({"2025-03-15"}, {<<1>>}, {StatusCancelled}),
     payments |-> PaymentBody({<<1>>}, {<<1>>, <<2>>}, Methods)]

Next == Requests(TenancyCallers, TenancyInputs, MaxCommitments, MaxPayments)

Spec == Init /\ [][Next]_vars

(* Ledger: one tenant, reached by its user and by the system administrator, with
   the field values that make payments partial, exact, excessive or invalid *)
LedgerCallers == {<<CompanyUser, Undefined>>, <<SystemAdmin, "1">>}
LedgerInputs ==
    [statuses |-> {Undefined, StatusActive},
     sorts |-> {<<Undefined, Undefined>>},
     creates |-> CommitmentBody({"2025-03-15"}, {<<2>>, <<3>>},
                                {Undefined, StatusCancelled}),
     numbers |-> {Number("2025", "03", 1), Number("2025", "03", 2)},
     ids |-> 1..MaxCommitments,
     updates |-> CommitmentBody({"2025-03-15"}, {<<1>>, NullInt}, {StatusActive}),
     payments |-> PaymentBody({<<1>>, <<2>>}, {<<1>>, <<2>>, <<3>>}, Methods)
                    \cup PaymentBody({<<1>>}, {<<1>>}, {Undefined})
                    \cup PaymentBody({NullInt}, {<<1>>}, Methods)
                    \cup PaymentBody({<<1>>}, {NullInt}, Methods)]

NextLedger == Requests(LedgerCallers, LedgerInputs, MaxCommitments, MaxPayments)

SpecLedger == Init /\ [][NextLedger]_vars

(* Numbering: one tenant, due dates on both sides of a month boundary *)
NumberingCallers == {<<CompanyUser, Undefined>>}
NumberingInputs ==
    [statuses |-> {Undefined},
     sorts |-> {<<Undefined, Undefined>>},
     creates |-> CommitmentBody({"2025-03-01", "2025-03-15", "2025-04-01", "soon",
                                 Undefined}, {<<1>>}, {Undefined}),
     numbers |-> {Number("2025", "03", 1)},
     ids |-> 1..MaxNumbered,
     updates |-> CommitmentBody({"2025-04-20"}, {<<1>>}, {StatusActive}),
     payments |-> PaymentBody({<<1>>}, {<<1>>}, Methods)]

NextNumbering ==
    Requests(NumberingCallers, NumberingInputs, MaxNumbered, MaxNumberedPayments)

SpecNumbering == Init /\ [][NextNumbering]_vars

\* A second passes between two requests
Tick ==
    /\ clock < MaxClock
    /\ clock' = clock + 1
    /\ UNCHANGED <<tzOffset, files, tenantDbs, opened, created, master, masterDb, boots,
                   inflight>>

(* Listing: one tenant whose commitments differ in every sortable column *)
ListingCallers == {<<CompanyUser, Undefined>>}
ListingInputs ==
    [statuses |-> {Undefined, StatusActive},
     sorts |-> {<<Undefined, Undefined>>, <<"amount", "ASC">>},
     creates |-> [due_date : {"2025-03-01", "2025-03-15"}, account : Accounts,
                  description : {Undefined, "a"}, amount : {<<1>>, <<2>>},
                  status : {Undefined, StatusCancelled}],
     numbers |-> {Number("2025", "03", 1)},
     ids |-> 1..MaxListed,
     updates |-> [due_date : {"2025-04-20"}, account : Accounts, description : {"b"},
                  amount : {<<3>>}, status : {Undefined}],
     payments |-> PaymentBody({<<1>>}, {<<2>>}, Methods)]

NextListing ==
    \/ Requests(ListingCallers, ListingInputs, MaxListed, MaxNumberedPayments)
    \/ Tick

SpecListing == Init /\ [][NextListing]_vars

(* Race: two server processes on one data directory, each running
   createCommitment in two steps: the read of the latest number, then the INSERT.
   The registry stands for the handles of either process, which open the same
   files. *)
RaceCallers == {<<CompanyUser, Undefined>>}
RaceBodies == CommitmentBody({"2025-03-01", "2025-03-15", "2025-04-01"}, {<<1>>},
                             {Undefined})

\* src/server/db.ts 259-289: routing, getTenantDb, and the number generated from
\* the latest one stored at this moment
ReadLatestStep(p, user, company_id, body) ==
    LET key == NumberKey(TargetCompanyId(user, company_id))
        reg == GetTenantDb(Registry, key)
    IN /\ inflight[p] = <<>>
       /\ ~NoCompanyLinked(user)
       /\ Truthy(TargetCompanyId(user, company_id))
       /\ Inserted("commitments") + Cardinality({q \in Processes : inflight[q] # <<>>})
             < MaxRaced
       /\ inflight' = [inflight EXCEPT ![p] =
             <<[key |-> key, body |-> body,
                generatedCommitNumber |->
                    GeneratedCommitNumber(StoreOf(reg, key).commitments,
                                          body.due_date, tzOffset)]>>]
       /\ tenantDbs' = reg.tenantDbs
       /\ files' = reg.files
       /\ opened' = reg.opened
       /\ UNCHANGED <<tzOffset, created, clock, master, masterDb, boots>>

\* The response of the INSERT of the request process p has in flight
InsertResponse(p) ==
    LET pending == inflight[p][1]
    IN InsertGenerated(Registry, pending.key, pending.generatedCommitNumber,
                       pending.body, clock)

\* src/server/db.ts 291-300
InsertStep(p) ==
    /\ inflight[p] # <<>>
    /\ LET pending == inflight[p][1]
           response == InsertResponse(p)
       IN /\ tenantDbs' = response.reg.tenantDbs
          /\ files' = response.reg.files
          /\ opened' = response.reg.opened
          /\ created' =
               IF response.status = 200
               THEN Append(created, [store |-> pending.key, id |-> response.body.id,
                                     due_date |-> pending.body.due_date,
                                     commit_number |-> pending.generatedCommitNumber])
               ELSE created
    /\ inflight' = [inflight EXCEPT ![p] = <<>>]
    /\ UNCHANGED <<tzOffset, clock, master, masterDb, boots>>

NextRace ==
    \E p \in Processes :
        \/ \E caller \in RaceCallers, body \in RaceBodies :
              ReadLatestStep(p, caller[1], caller[2], body)
        \/ InsertStep(p)

SpecRace == Init /\ [][NextRace]_vars

(* Master: registration, login, and the administration of companies, users
   and currencies by whoever can log in *)
ApplyMaster(response) ==
    /\ master' = response.master
    /\ UNCHANGED <<tzOffset, files, tenantDbs, opened, created, clock, masterDb, boots,
                   inflight>>

LoginRequest(body) == ApplyMaster(Login(master, body))
RegisterRequest(body) == ApplyMaster(Register(master, body))
CreateCompanyRequest(auth, body) == ApplyMaster(CreateCompany(master, auth, body))
UpdateCompanyRequest(auth, id, body) == ApplyMaster(UpdateCompany(master, auth, id, body))
DeleteCompanyRequest(auth, id) == ApplyMaster(DeleteCompany(master, auth, id))
CreateUserRequest(auth, body, foreignKeys) ==
    ApplyMaster(CreateUser(master, auth, body, foreignKeys))
UpdateUserRequest(auth, id, body, foreignKeys) ==
    ApplyMaster(UpdateUser(master, auth, id, body, foreignKeys))
DeleteUserRequest(auth, id) == ApplyMaster(DeleteUser(master, auth, id))
CreateCurrencyRequest(auth, body) == ApplyMaster(CreateCurrency(master, auth, body))
UpdateCurrencyRequest(auth, code, body) ==
    ApplyMaster(UpdateCurrency(master, auth, code, body))
DeleteCurrencyRequest(auth, code) == ApplyMaster(DeleteCurrency(master, auth, code))

MasterInputs ==
    [logins |-> {[username |-> "admin", password |-> "admin"],
                 [username |-> "root", password |-> "admin"],
                 [username |-> "bob", password |-> "pw"],
                 [username |-> "admin", password |-> "pw"],
                 [username |-> "admin", password |-> Undefined]},
     registers |-> [name_en : {"acme", Undefined}, name_ar : {"acme"},
                    currency_code : {"USD"},
                    username : {"admin", "bob"}, password : {"pw", Undefined}],
     companies |-> [name_en : {"acme", Undefined}, name_ar : {"acme"},
                    currency_code : {Undefined, "USD"}],
     users |-> [username : {"bob"}, password : {"pw"},
                company_id : {NullInt, <<1>>}, role : {Undefined, "admin"}],
     userUpdates |-> [username : {"root"}, password : {Undefined},
                      company_id : {NullInt}, role : {"admin"},
                      is_active : {NullInt, <<0>>}],
     ids |-> 1..MaxUsers,
     currencies |-> [code : {"USD"}, name_ar : {"name_ar"},
                     name_en : {"name_en", Undefined}, symbol : {"symbol"}],
     codes |-> {"USD"}]

\* What a client presents: nothing, or the token of a login it makes now
Presented == {<<>>} \cup {<<body>> : body \in MasterInputs.logins}
CanPresent(db, presented) ==
    IF presented = <<>> THEN TRUE ELSE Login(db, presented[1]).status = 200
Credentials(db, presented) ==
    IF presented = <<>> THEN NoToken ELSE Bearer(Login(db, presented[1]).body.token)

NextMaster ==
    LET in == MasterInputs
    IN \/ \E body \in in.logins : LoginRequest(body)
       \/ \E body \in in.registers :
             /\ master.seq.companies < MaxCompanies
             /\ master.seq.users < MaxUsers
             /\ RegisterRequest(body)
       \/ \E presented \in Presented :
             LET auth == Credentials(master, presented)
             IN \/ \E body \in in.companies :
                      /\ CanPresent(master, presented)
                      /\ master.seq.companies < MaxCompanies
                      /\ CreateCompanyRequest(auth, body)
                \/ \E id \in in.ids, body \in in.companies :
                      /\ CanPresent(master, presented)
                      /\ UpdateCompanyRequest(auth, id, body)
                \/ \E id \in in.ids :
                      /\ CanPresent(master, presented)
                      /\ DeleteCompanyRequest(auth, id)
                \/ \E body \in in.users, foreignKeys \in BOOLEAN :
                      /\ CanPresent(master, presented)
                      /\ master.seq.users < MaxUsers
                      /\ CreateUserRequest(auth, body, foreignKeys)
                \/ \E id \in in.ids, body \in in.userUpdates, foreignKeys \in BOOLEAN :
                      /\ CanPresent(master, presented)
                      /\ UpdateUserRequest(auth, id, body, foreignKeys)
                \/ \E id \in in.ids :
                      /\ CanPresent(master, presented)
                      /\ DeleteUserRequest(auth, id)
                \/ \E body \in in.currencies :
                      /\ CanPresent(master, presented)
                      /\ CreateCurrencyRequest(auth, body)
                \/ \E code \in in.codes, body \in in.currencies :
                      /\ CanPresent(master, presented)
                      /\ UpdateCurrencyRequest(auth, code, body)
                \/ \E code \in in.codes :
                      /\ CanPresent(master, presented)
                      /\ DeleteCurrencyRequest(auth, code)

SpecMaster == Init /\ [][NextMaster]_vars

(* Sequence: a process started on the store of a tenant that created MaxSequence
   commitments due in March 2025, one after the other, and deleted some of them;
   the commitments it kept are among those numbered in Samples *)
Samples == {1, 99, 100, MaxSequence - 1, MaxSequence}
MarchBody == [due_date |-> "2025-03-15", account |-> "rent", description |-> Undefined,
              amount |-> <<1>>, status |-> Undefined]

\* The row the n-th of these creations inserted
MarchRow(n) ==
    [id |-> n, commit_number |-> Number("2025", "03", n), due_date |-> MarchBody.due_date,
     account |-> MarchBody.account, description |-> MarchBody.description,
     amount |-> MarchBody.amount[1], status |-> StatusActive, created_at |-> 0]

InitSequence ==
    /\ tzOffset \in {0 - 180, 300}
    /\ \E kept \in SUBSET Samples :
          files = (TenantPath("1") :>
                     [commitments |-> {MarchRow(n) : n \in kept}, payments |-> {},
                      seq |-> [commitments |-> MaxSequence, payments |-> 0]])
    /\ tenantDbs = <<>>
    /\ opened = 0
    /\ created = <<>>
    /\ clock = 0
    /\ master = InitMasterDb(EmptyMaster)
    /\ masterDb = <<1>>
    /\ boots = 1
    /\ inflight = [p \in Processes |-> <<>>]

SequenceCallers == {<<CompanyUser, Undefined>>}

NextSequence ==
    \E caller \in SequenceCallers :
        \/ /\ Inserted("commitments") < MaxSequence + 2
           /\ CreateCommitmentRequest(caller[1], caller[2], MarchBody)
        \/ \E id \in Samples \cup {MaxSequence + 1, MaxSequence + 2} :
              DeleteCommitmentRequest(caller[1], caller[2], id)

SpecSequence == InitSequence /\ [][NextSequence]_vars

(* Validation: one tenant, with amounts that are zero, negative or missing and a
   status outside the three the application uses *)
ValidationCallers == {<<CompanyUser, Undefined>>}
ValidationInputs ==
    [statuses |-> {Undefined},
     sorts |-> {<<Undefined, Undefined>>},
     creates |-> CommitmentBody({"2025-03-15"}, {<<0>>, <<0 - 1>>, <<1>>, NullInt},
                                {Undefined, "paused"}),
     numbers |-> {Number("2025", "03", 1)},
     ids |-> 1..MaxValidated,
     updates |-> CommitmentBody({"2025-03-15"}, {<<0>>, <<0 - 1>>, <<1>>, NullInt},
                                {Undefined, "paused", StatusActive}),
     payments |-> PaymentBody({<<1>>}, {<<0>>, <<0 - 1>>, <<1>>, NullInt}, Methods)]

NextValidation ==
    Requests(ValidationCallers, ValidationInputs, MaxValidated, MaxNumberedPayments)

SpecValidation == Init /\ [][NextValidation]_vars

(* Directory: the system administrator creates and deletes companies, companies
   register, and the administrator runs ledger operations with a company_id it
   supplies *)
DirectoryCallers == {<<SystemAdmin, "1">>, <<SystemAdmin, "2">>}
DirectoryAdmin == <<[username |-> "admin", password |-> "admin"]>>
DirectoryCompanies == [name_en : {"acme"}, name_ar : {"acme"}, currency_code : {Undefined}]
DirectoryRegisters ==
    [name_en : {"acme"}, name_ar : {"acme"}, currency_code : {"USD"},
     username : {"bob"}, password : {"pw"}]

NextDirectory ==
    \/ Requests(DirectoryCallers, TenancyInputs, MaxCommitments, MaxPayments)
    \/ \E body \in DirectoryRegisters :
          /\ master.seq.companies < MaxCompanies
          /\ master.seq.users < MaxUsers
          /\ RegisterRequest(body)
    \/ \E body \in DirectoryCompanies :
          /\ CanPresent(master, DirectoryAdmin)
          /\ master.seq.companies < MaxCompanies
          /\ CreateCompanyRequest(Credentials(master, DirectoryAdmin), body)
    \/ \E id \in 1..MaxCompanies :
          /\ CanPresent(master, DirectoryAdmin)
          /\ DeleteCompanyRequest(Credentials(master, DirectoryAdmin), id)

SpecDirectory == Init /\ [][NextDirectory]_vars

(* Boot: server processes started one after the other on the same data
   directory, between which currencies are deleted and users renamed *)
ApplyHandle(result) ==
    /\ masterDb' = result.masterDb
    /\ master' = result.master

\* node server.ts: a new process, whose startServer calls initMasterDb()
StartServer ==
    /\ boots < MaxBoots
    /\ boots' = boots + 1
    /\ ApplyHandle(InitMasterDbCall(<<>>, master, boots + 1))
    /\ tenantDbs' = <<>>
    /\ inflight' = [p \in Processes |-> <<>>]
    /\ UNCHANGED <<tzOffset, files, opened, created, clock>>

\* initMasterDb() called again in the running process
InitMasterDbRequest ==
    /\ ApplyHandle(InitMasterDbCall(masterDb, master, boots))
    /\ UNCHANGED <<tzOffset, files, tenantDbs, opened, created, clock, boots, inflight>>

\* getMasterDb() as every master handler calls it
GetMasterDbRequest ==
    /\ ApplyHandle(GetMasterDb(masterDb, master, boots))
    /\ UNCHANGED <<tzOffset, files, tenantDbs, opened, created, clock, boots, inflight>>

BootPresented == {<<[username |-> "admin", password |-> "admin"]>>,
                  <<[username |-> "root", password |-> "admin"]>>}
BootUserUpdates == [username : {"root"}, password : {Undefined}, company_id : {NullInt},
                    role : {"admin"}, is_active : {NullInt}]

NextBoot ==
    \/ StartServer
    \/ InitMasterDbRequest
    \/ GetMasterDbRequest
    \/ \E presented \in BootPresented :
          LET auth == Credentials(master, presented)
          IN \/ \E code \in DefaultCurrencies :
                   /\ CanPresent(master, presented)
                   /\ DeleteCurrencyRequest(auth, code)
             \/ \E id \in 1..MaxBoots, body \in BootUserUpdates, foreignKeys \in BOOLEAN :
                   /\ CanPresent(master, presented)
                   /\ UpdateUserRequest(auth, id, body, foreignKeys)

SpecBoot == Init /\ [][NextBoot]_vars

----------------------------------------------------------------------------
(* Properties *)

\* The tables of every store but the one at path are what they are now
OthersUntouched(response, path) ==
    \A q \in DOMAIN response.reg.files :
        q # path => Tables(response.reg.files, q) = Tables(files, q)

\* Two responses agree on what the caller sees and on the store at path
SameOutcome(r1, r2, path) ==
    /\ r1.status = r2.status
    /\ r1.body = r2.body
    /\ Tables(r1.reg.files, path) = Tables(r2.reg.files, path)

\* The registry with every store but the one at path emptied
Erased(path) ==
    [Registry EXCEPT !.files =
        [q \in DOMAIN files |-> IF q = path THEN files[q] ELSE EmptyStore]]

\* A request by a company's user touches no other store, and its outcome is the
\* outcome it has when every other store is empty
Isolated(user, now, erased) ==
    LET path == TenantPath(NumberKey(user.company_id))
    IN OthersUntouched(now, path) /\ SameOutcome(now, erased, path)

\* company_id values a caller may put in the query string or the body
SuppliedAny == Supplied \cup {"3", "abc"}

\* C1: tenant isolation.  For a caller whose token carries a company_id, every
\* ledger operation reads and writes only that company's tenant store, whatever
\* company_id is supplied: it leaves every other store as it is, and what it
\* returns and writes does not depend on the contents of any other store.
C1_TenantIsolation ==
    \A user \in {u \in Users : Truthy(u.company_id)}, company_id \in SuppliedAny :
        LET e == Erased(TenantPath(NumberKey(user.company_id)))
            in == TenancyInputs
        IN /\ \A status \in in.statuses \cup {StatusActive}, sort \in in.sorts :
                Isolated(user,
                         ListCommitments(Registry, user, company_id, status,
                                         sort[1], sort[2]),
                         ListCommitments(e, user, company_id, status, sort[1], sort[2]))
           /\ \A body \in in.creates :
                Isolated(user,
                         CreateCommitment(Registry, tzOffset, clock, user, company_id, body),
                         CreateCommitment(e, tzOffset, clock, user, company_id, body))
           /\ \A number \in in.numbers :
                Isolated(user, SearchByNumber(Registry, user, company_id, number),
                               SearchByNumber(e, user, company_id, number))
           /\ \A id \in in.ids, body \in in.updates :
                Isolated(user, UpdateCommitment(Registry, user, company_id, id, body),
                               UpdateCommitment(e, user, company_id, id, body))
           /\ \A id \in in.ids :
                Isolated(user, DeleteCommitment(Registry, user, company_id, id),
                               DeleteCommitment(e, user, company_id, id))
           /\ Isolated(user, ListPayments(Registry, user, company_id),
                             ListPayments(e, user, company_id))
           /\ \A body \in in.payments, foreignKeys \in BOOLEAN :
                Isolated(user,
                         RecordPayment(Registry, user, company_id, body, foreignKeys),
                         RecordPayment(e, user, company_id, body, foreignKeys))
           /\ Isolated(user, Stats(Registry, user, company_id),
                             Stats(e, user, company_id))

\* Both companies hold commitments and payments, company 1's differ from company
\* 2's, and company 1's user, supplying company 2's id, is given its own rows
C1_Witness ==
    /\ {"tenant_1.db", "tenant_2.db"} \subseteq DOMAIN files
    /\ files["tenant_1.db"].commitments # {}
    /\ files["tenant_2.db"].commitments # {}
    /\ files["tenant_1.db"].payments # {}
    /\ files["tenant_2.db"].payments # {}
    /\ files["tenant_1.db"].commitments # files["tenant_2.db"].commitments
    /\ \A a \in ListCommitments(Registry, CompanyUser, "2", Undefined,
                                  Undefined, Undefined).body :
          {a[i] : i \in DOMAIN a} = files["tenant_1.db"].commitments

\* C9: tenant store registry.  Every call of getTenantDb with an id already in
\* the cache returns the handle made by the first call and makes no new one (the
\* cache is never evicted, and initTenantDb has run exactly once per cached id);
\* two different ids never share a handle or a store file tenant_<id>.db.
C9_RegistryStable ==
    /\ [](/\ opened = Cardinality(DOMAIN tenantDbs)
          /\ \A k \in DOMAIN tenantDbs :
                /\ tenantDbs[k].path = "tenant_" \o k \o ".db"
                /\ tenantDbs[k].path \in DOMAIN files
                /\ GetTenantDb(Registry, k).tenantDbs[k] = tenantDbs[k]
                /\ GetTenantDb(Registry, k).opened = opened
          /\ \A k1, k2 \in DOMAIN tenantDbs :
                k1 # k2 => /\ tenantDbs[k1].serial # tenantDbs[k2].serial
                           /\ tenantDbs[k1].path # tenantDbs[k2].path)
    /\ [][\A k \in DOMAIN tenantDbs :
             k \in DOMAIN tenantDbs' /\ tenantDbs'[k] = tenantDbs[k]]_vars

\* Three ids ("1", "2" and the NaN of a missing company_id) are cached, each
\* with the handle of its own store, and stores hold rows
C9_Witness ==
    /\ DOMAIN tenantDbs = {"1", "2", "NaN"}
    /\ opened = 3
    /\ files["tenant_1.db"].commitments # {}
    /\ files["tenant_2.db"].commitments # {}

----------------------------------------------------------------------------
(* Ledger properties, stated on tenant 1's store under SpecLedger *)

RECURSIVE PaidUpTo(_, _, _)
\* The sum of the amounts of the payments numbered 1..n that name commitment id
PaidUpTo(payments, id, n) ==
    IF n = 0 THEN 0
    ELSE PaidUpTo(payments, id, n - 1)
         + (IF \E x \in payments : x.id = n /\ x.commitment_id = id
            THEN (CHOOSE x \in payments : x.id = n).amount
            ELSE 0)
PaidFor(store, id) == PaidUpTo(store.payments, id, store.seq.payments)

\* The store a ledger caller reaches, before and after a response
LedgerPath == "tenant_1.db"
StoreAt(fs, path) == IF path \in DOMAIN fs THEN fs[path] ELSE EmptyStore
Before == StoreAt(files, LedgerPath)
After(response) == StoreAt(response.reg.files, LedgerPath)

\* The response leaves every store, its sequences included, as it is
NothingChanged(response) ==
    \A q \in DOMAIN response.reg.files :
        StoreAt(response.reg.files, q) = StoreAt(files, q)

\* A payment body with every column present
Complete(body) ==
    /\ body.commitment_id # NullInt
    /\ body.amount # NullInt
    /\ body.method # Undefined
    /\ body.payment_date # Undefined

\* C2: recordPayment is all-or-nothing.  A call that fails, which includes every
\* call whose commitment_id names no existing commitment, returns an error and
\* leaves every store exactly as it was; a call that succeeds has stored the
\* payment and evaluated the status update on the sum that includes it.
C2_PaymentAllOrNothing ==
    \A caller \in LedgerCallers, body \in LedgerInputs.payments, foreignKeys \in BOOLEAN :
        LET r == RecordPayment(Registry, caller[1], caller[2], body, foreignKeys)
        IN /\ r.status # 200 => r.status >= 400 /\ NothingChanged(r)
           /\ (body.commitment_id = NullInt
               \/ ~\E c \in Before.commitments : c.id = body.commitment_id[1])
                 => r.status # 200
           /\ r.status = 200 =>
                /\ Cardinality(After(r).payments) = Cardinality(Before.payments) + 1
                /\ Before.payments \subseteq After(r).payments
                /\ \E c \in After(r).commitments :
                      /\ c.id = body.commitment_id[1]
                      /\ PaidFor(After(r), c.id) >= c.amount
                            => c.status = StatusCompleted

\* The store holds a commitment and a payment, and a payment naming a
\* commitment that does not exist fails on a connection without foreign keys
C2_Witness ==
    /\ Before.commitments # {}
    /\ Before.payments # {}
    /\ \E body \in LedgerInputs.payments :
          /\ Complete(body)
          /\ ~\E c \in Before.commitments : c.id = body.commitment_id[1]
          /\ RecordPayment(Registry, CompanyUser, Undefined, body, FALSE).status = 500

C6_OverpaymentRejected ==
    \A caller \in LedgerCallers, body \in LedgerInputs.payments, foreignKeys \in BOOLEAN :
        \A c \in Before.commitments :
            LET r == RecordPayment(Registry, caller[1], caller[2], body, foreignKeys)
            IN (/\ Complete(body)
                /\ body.commitment_id[1] = c.id
                /\ body.amount[1] > c.amount - PaidFor(Before, c.id))
               => r.status # 200 /\ NothingChanged(r)

\* C7: a payment that makes the sum of the commitment's payments exceed its
\* amount is accepted: the row is stored, the status becomes completed, and
\* searchByNumber reports the negative remainingAmount = amount - totalPaid.
C7_OverpaymentAccepted ==
    \A caller \in LedgerCallers, body \in LedgerInputs.payments, foreignKeys \in BOOLEAN :
        \A c \in Before.commitments :
            LET r == RecordPayment(Registry, caller[1], caller[2], body, foreignKeys)
                total == PaidFor(Before, c.id) + body.amount[1]
                search == SearchByNumber(r.reg, caller[1], caller[2], c.commit_number)
            IN (/\ Complete(body)
                /\ body.commitment_id[1] = c.id
                /\ total > c.amount)
               => /\ r.status = 200
                  /\ \E x \in After(r).payments \ Before.payments :
                        x.commitment_id = c.id /\ x.amount = body.amount[1]
                  /\ [c EXCEPT !.status = StatusCompleted] \in After(r).commitments
                  /\ search.status = 200
                  /\ search.body.totalPaid = total
                  /\ search.body.remainingAmount = c.amount - total
                  /\ search.body.remainingAmount < 0

\* A completed commitment whose recorded payments exceed its amount
C7_Witness ==
    \E c \in Before.commitments :
        /\ c.status = StatusCompleted
        /\ PaidFor(Before, c.id) > c.amount
        /\ SearchByNumber(Registry, CompanyUser, Undefined, c.commit_number)
              .body.remainingAmount < 0

\* C8: deleting a commitment no payment references removes that commitment and
\* nothing else; deleting one that a payment references returns the conflict
\* error (400) and leaves every store unchanged.
C8_DeleteGuard ==
    \A caller \in LedgerCallers, id \in LedgerInputs.ids :
        LET r == DeleteCommitment(Registry, caller[1], caller[2], id)
            referenced == \E x \in Before.payments : x.commitment_id = id
        IN /\ ~referenced
                => /\ r.status = 200
                   /\ After(r).commitments = {c \in Before.commitments : c.id # id}
                   /\ After(r).payments = Before.payments
                   /\ After(r).seq = Before.seq
           /\ referenced => r.status = 400 /\ NothingChanged(r)

\* One commitment with a payment and one without
C8_Witness ==
    /\ \E c \in Before.commitments : \E x \in Before.payments : x.commitment_id = c.id
    /\ \E c \in Before.commitments : \A x \in Before.payments : x.commitment_id # c.id
    /\ \E id \in LedgerInputs.ids :
          DeleteCommitment(Registry, CompanyUser, Undefined, id).status = 400
    /\ \E id \in LedgerInputs.ids :
          Cardinality(After(DeleteCommitment(Registry, CompanyUser, Undefined, id))
                         .commitments) < Cardinality(Before.commitments)

\* Numbers a search may ask for: the stored ones and the offered ones
SearchNumbers == LedgerInputs.numbers \cup {c.commit_number : c \in Before.commitments}

\* C10: searchByNumber returns not-found (404) when no commitment of the store
\* has the number; otherwise the commitment with exactly the payments that name
\* it, totalPaid their sum and remainingAmount = amount - totalPaid, which for a
\* commitment without payments is totalPaid 0 and remainingAmount = amount.
C10_Search ==
    \A caller \in LedgerCallers, number \in SearchNumbers :
        LET r == SearchByNumber(Registry, caller[1], caller[2], number)
            found == {c \in Before.commitments : c.commit_number = number}
        IN /\ found = {} => r.status = 404
           /\ \A c \in found :
                LET mine == {x \in Before.payments : x.commitment_id = c.id}
                IN /\ r.status = 200
                   /\ r.body.commitment = c
                   /\ r.body.payments = mine
                   /\ r.body.totalPaid = PaidFor(Before, c.id)
                   /\ r.body.remainingAmount = c.amount - PaidFor(Before, c.id)
                   /\ mine = {} => /\ r.body.totalPaid = 0
                                   /\ r.body.remainingAmount = c.amount

\* A commitment with a payment is found while another commitment of the store
\* has a payment of its own
C10_Witness ==
    \E c, d \in Before.commitments :
        /\ c.id # d.id
        /\ \E x \in Before.payments : x.commitment_id = c.id
        /\ \E x \in Before.payments : x.commitment_id = d.id
        /\ SearchByNumber(Registry, CompanyUser, Undefined, c.commit_number).status = 200

----------------------------------------------------------------------------
(* Numbering properties, stated on tenant 1's store under SpecNumbering *)

\* The due date names a calendar day
Parseable(due_date) == UtcDate(due_date) # <<>>

\* The calendar year and month a due date names, as the parts of a number
DueMonth(due_date) ==
    LET utc == UtcDate(due_date)
    IN <<ToString(utc[1]), PadStartStr(ToString(utc[2]), 2)>>

\* The months whose prefixes occur, in calendar order
KnownMonths == {<<y, m>> : y \in 2024..2025, m \in 1..12}
MonthOf(commit_number) ==
    CHOOSE ym \in KnownMonths :
        PrefixOfLocal(<<ym[1], ym[2], 1>>) = <<commit_number[1], commit_number[2]>>

\* The order of commit numbers as strings: the prefixes have a fixed width, so
\* they compare as their months do; then the sequence digits compare as strings
CommitNumberLess(a, b) ==
    LET ma == MonthOf(a)
        mb == MonthOf(b)
    IN \/ ma[1] < mb[1]
       \/ ma[1] = mb[1] /\ ma[2] < mb[2]
       \/ ma = mb /\ StrLess(a[3], b[3])

\* C3: the commit numbers generated by successful createCommitment calls in one
\* tenant for due dates of one calendar month are pairwise distinct, and each is
\* strictly greater than every one generated earlier for that month.
C3_IncreasingNumbers ==
    \A i, j \in 1..Len(created) :
        (/\ i < j
         /\ created[i].store = created[j].store
         /\ Parseable(created[i].due_date)
         /\ Parseable(created[j].due_date)
         /\ DueMonth(created[i].due_date) = DueMonth(created[j].due_date))
        => /\ created[i].commit_number # created[j].commit_number
           /\ CommitNumberLess(created[i].commit_number, created[j].commit_number)

\* C4: createCommitment assigns YYYY-MM-NNN, YYYY-MM being the year and month of
\* due_date and NNN the three-digit sequence: 001 when the store holds no number
\* with that YYYY-MM- prefix, otherwise the sequence of the highest one plus 1.
C4_NumberFormat ==
    \A caller \in NumberingCallers, body \in NumberingInputs.creates :
        LET r == CreateCommitment(Registry, tzOffset, clock, caller[1], caller[2], body)
            month == DueMonth(body.due_date)
            same == {c \in Before.commitments : LikePrefix(c.commit_number, month)}
            highest == CHOOSE c \in same :
                          \A d \in same : ~StrLess(c.commit_number[3], d.commit_number[3])
            n == IF same = {} THEN 1 ELSE ParseInt(highest.commit_number[3]) + 1
        IN (Parseable(body.due_date) /\ r.status = 200)
           => \E c \in After(r).commitments :
                 /\ c.id = r.body.id
                 /\ c.commit_number = <<month[1], month[2], PadStart(Digits(n), 3)>>

----------------------------------------------------------------------------
(* Listing properties, stated on tenant 1's store under SpecListing *)

\* sortBy and order as a caller may send them
SortsAny == (AllowedSortFields \cup {"commit_number", "id"})
                \X {Undefined, "ASC", "DESC", "asc"}

\* a holds each row of rows once
IsArrayOf(a, rows) ==
    /\ DOMAIN a = 1..Cardinality(rows)
    /\ {a[i] : i \in DOMAIN a} = rows

\* a is non-decreasing (up = TRUE) or non-increasing in the column field
Monotone(a, field, up) ==
    \A i, j \in DOMAIN a :
        i < j => IF up THEN SortKey(a[i], field) <= SortKey(a[j], field)
                 ELSE SortKey(a[i], field) >= SortKey(a[j], field)

\* C11: listCommitments with sortBy among due_date, created_at, amount,
\* description, status returns the status-filtered commitments ordered by that
\* field, ascending only when order is exactly ASC and descending otherwise; with
\* any other sortBy it does not fail and returns them by created_at descending.
C11_ListOrdering ==
    \A caller \in ListingCallers, status \in ListingInputs.statuses, sort \in SortsAny :
        LET r == ListCommitments(Registry, caller[1], caller[2], status,
                                 sort[1], sort[2])
            selected == {c \in Before.commitments : Truthy(status) => c.status = status}
        IN /\ r.status = 200
           /\ r.body # {}
           /\ \A a \in r.body :
                 /\ IsArrayOf(a, selected)
                 /\ sort[1] \in AllowedSortFields
                       => Monotone(a, sort[1], sort[2] = "ASC")
                 /\ sort[1] \notin AllowedSortFields
                       => Monotone(a, "created_at", FALSE)

----------------------------------------------------------------------------
(* Callers without a company, stated under Spec *)

\* The response is an error the caller is to blame for, and changes nothing
ClientError(r) == r.status \in 400..499 /\ r.reg = Registry

\* The response is the authorization error, and changes nothing
Refused(r) == r.status = 403 /\ r.reg = Registry

\* Holds is true of the response of every ledger operation other than
\* listCommitments
OfOtherLedgerResponses(user, company_id, Holds(_)) ==
    LET in == TenancyInputs
    IN /\ \A body \in in.creates :
            Holds(CreateCommitment(Registry, tzOffset, clock, user, company_id, body))
       /\ \A number \in in.numbers :
            Holds(SearchByNumber(Registry, user, company_id, number))
       /\ \A id \in in.ids, body \in in.updates :
            Holds(UpdateCommitment(Registry, user, company_id, id, body))
       /\ \A id \in in.ids : Holds(DeleteCommitment(Registry, user, company_id, id))
       /\ Holds(ListPayments(Registry, user, company_id))
       /\ \A body \in in.payments, foreignKeys \in BOOLEAN :
            Holds(RecordPayment(Registry, user, company_id, body, foreignKeys))
       /\ Holds(Stats(Registry, user, company_id))

\* Holds is true of every response of listCommitments
OfListResponses(user, company_id, Holds(_)) ==
    \A status \in TenancyInputs.statuses, sort \in TenancyInputs.sorts :
        Holds(ListCommitments(Registry, user, company_id, status, sort[1], sort[2]))

\* The empty list, without error and without a change
EmptyList(r) == r.status = 200 /\ r.body = {<<>>} /\ r.reg = Registry

\* C12: for an admin without company_id who supplies no tenant id, listCommitments
\* returns an empty list without error and without creating or opening a tenant
\* store, and every other ledger operation fails with a client error, creates no
\* store and changes no state; a caller without company_id whose role is not
\* admin is refused with the authorization error on every ledger operation.
C12_AdminWithoutTenant ==
    /\ OfListResponses(SystemAdmin, Undefined, EmptyList)
    /\ OfOtherLedgerResponses(SystemAdmin, Undefined, ClientError)
    /\ \A company_id \in Supplied :
          /\ OfListResponses(UnlinkedUser, company_id, Refused)
          /\ OfOtherLedgerResponses(UnlinkedUser, company_id, Refused)

----------------------------------------------------------------------------
(* Failure of createCommitment, stated under SpecNumbering *)

\* C13: createCommitment with a due_date that cannot be parsed as a date fails
\* with an error before a commit_number is generated, and inserts no row: the
\* tenant store is unchanged.
C13_UnparseableDueDate ==
    \A caller \in NumberingCallers, body \in NumberingInputs.creates :
        LET r == CreateCommitment(Registry, tzOffset, clock, caller[1], caller[2], body)
        IN ~Parseable(body.due_date) => r.status >= 400 /\ NothingChanged(r)

----------------------------------------------------------------------------
(* Master properties, stated under SpecMaster *)

\* The user insert of a registration cannot succeed: the username is taken or
\* missing, or there is no password to hash
UserStepFails(body) ==
    \/ body.password = Undefined
    \/ body.username = Undefined
    \/ \E u \in master.users : u.username = body.username

\* C14: registration is atomic.  If creating the first admin user fails (the
\* username exists, the password is missing), the company inserted earlier in
\* the registration does not persist and companies and users are exactly as
\* before; if it succeeds, exactly one company and exactly one user, with role
\* admin and that company's id, are added.
C14_RegistrationAtomic ==
    \A body \in MasterInputs.registers :
        LET r == Register(master, body)
            companies == r.master.companies \ master.companies
            users == r.master.users \ master.users
        IN /\ UserStepFails(body) => r.status >= 400
           /\ r.status # 200 => r.master = master
           /\ r.status = 200
                 => /\ master.companies \subseteq r.master.companies
                    /\ master.users \subseteq r.master.users
                    /\ r.master.currencies = master.currencies
                    /\ Cardinality(companies) = 1
                    /\ Cardinality(users) = 1
                    /\ \A c \in companies, u \in users :
                          /\ u.role = "admin"
                          /\ u.company_id = <<c.id>>
                          /\ u.username = body.username
                          /\ \A d \in master.companies : d.id # c.id
                          /\ \A v \in master.users : v.id # u.id

\* A company was registered with its admin, and a second registration whose
\* company row is valid fails on the username of that admin
C14_Witness ==
    /\ \E c \in master.companies, u \in master.users :
          u.company_id = <<c.id>> /\ u.role = "admin" /\ u.username = "bob"
    /\ \E body \in MasterInputs.registers :
          /\ CompanyInsertOk(body)
          /\ body.password # Undefined
          /\ body.username = "bob"
          /\ Register(master, body).status = 500

----------------------------------------------------------------------------
(* Race properties, stated under SpecRace *)

\* p and q have both read the latest number and neither has inserted, for one
\* tenant and due dates of one calendar month
Racing(p, q) ==
    /\ p # q
    /\ inflight[p] # <<>>
    /\ inflight[q] # <<>>
    /\ inflight[p][1].key = inflight[q][1].key
    /\ DueMonth(inflight[p][1].body.due_date) = DueMonth(inflight[q][1].body.due_date)

\* The INSERT of pending answered on reg with r: it failed on the UNIQUE
\* constraint of commit_number and left the stores as they were
UniquenessError(r, reg, pending) ==
    /\ r.status = 500
    /\ r.reg.files = reg.files
    /\ \E c \in StoreOf(reg, pending.key).commitments :
          c.commit_number = pending.generatedCommitNumber

\* C15: when two createCommitment requests for one tenant and month have both
\* read the maximum number before either inserts, at most one insert succeeds
\* and the other fails with a uniqueness error; in no reachable state do two
\* commitments of a tenant share a commit_number; and a handler that runs to
\* completion, its read and insert not separated, never meets that error.
C15_RaceCollides ==
    /\ \A path \in DOMAIN files :
          \A c, d \in files[path].commitments :
              c.id # d.id => c.commit_number # d.commit_number
    /\ \A p, q \in Processes :
          Racing(p, q) =>
              LET first == InsertResponse(p)
                  second == InsertGenerated(first.reg, inflight[q][1].key,
                                            inflight[q][1].generatedCommitNumber,
                                            inflight[q][1].body, clock)
              IN /\ ~(first.status = 200 /\ second.status = 200)
                 /\ first.status # 200 => UniquenessError(first, Registry, inflight[p][1])
                 /\ second.status # 200
                       => UniquenessError(second, first.reg, inflight[q][1])
    /\ \A caller \in RaceCallers, body \in RaceBodies :
          CreateCommitment(Registry, tzOffset, clock, caller[1], caller[2], body)
              .status = 200

----------------------------------------------------------------------------
(* Density of the sequences, stated under SpecNumbering *)

\* The creations up to the i-th that are for its tenant and its calendar month
SameMonthUpTo(i) ==
    {j \in 1..i : /\ created[j].store = created[i].store
                  /\ Parseable(created[j].due_date)
                  /\ DueMonth(created[j].due_date) = DueMonth(created[i].due_date)}

\* C16: within one tenant and month the sequence numbers are dense in every
\* reachable state: the n commitments created so far for the month carry exactly
\* the sequences 1..n in insertion order, without gaps and without repeats.
C16_DenseSequences ==
    \A i \in 1..Len(created) :
        Parseable(created[i].due_date)
            => ParseInt(created[i].commit_number[3]) = Cardinality(SameMonthUpTo(i))

----------------------------------------------------------------------------
(* Payments over time, stated under SpecLedger *)

\* The payment rows of every store are kept as they are
PaymentsKept ==
    \A path \in DOMAIN files :
        /\ path \in DOMAIN files'
        /\ files[path].payments \subseteq files'[path].payments

\* Every commitment a payment names is still stored
PaidCommitmentsKept ==
    \A path \in DOMAIN files :
        \A c \in files[path].commitments :
            (\E x \in files[path].payments : x.commitment_id = c.id)
                => \E d \in files'[path].commitments : d.id = c.id

\* C17: payments are append-only.  No operation deletes a payment row or
\* changes its commitment_id, amount, method or payment_date; so a commitment
\* that has a payment is never deleted in a later state.
C17_PaymentsAppendOnly == [][PaymentsKept /\ PaidCommitmentsKept]_vars

\* Commitments were deleted from a store that holds two payments, and the
\* commitment they name is still there and cannot be deleted
C17_Witness ==
    /\ Cardinality(Before.payments) = 2
    /\ Before.seq.commitments > Cardinality(Before.commitments)
    /\ \E c \in Before.commitments :
          /\ \A x \in Before.payments : x.commitment_id = c.id
          /\ DeleteCommitment(Registry, CompanyUser, Undefined, c.id).status = 400

----------------------------------------------------------------------------
(* User deletion, stated under SpecMaster *)

\* The id of the administrator seeded at first boot
BootstrapAdminId == (CHOOSE u \in InitMasterDb(EmptyMaster).users : TRUE).id

\* C18: user deletion is refused, and the users table left unchanged, when the
\* target is the caller's own account or the bootstrap admin account; so after
\* any sequence of user create, update and delete operations the bootstrap
\* admin seeded at first boot still exists.
C18_BootstrapAdminKept ==
    /\ \A presented \in Presented, id \in MasterInputs.ids :
          LET auth == Credentials(master, presented)
              r == DeleteUser(master, auth, id)
          IN (CanPresent(master, presented)
              /\ (id = auth.user.id \/ id = BootstrapAdminId))
                => r.status # 200 /\ r.master = master
    /\ \E u \in master.users : u.id = BootstrapAdminId

----------------------------------------------------------------------------
(* Deletes in the master store, stated under SpecMaster *)

Referenced(id) ==
    /\ \E c \in master.companies : c.id = id
    /\ \E u \in master.users : u.company_id = <<id>>

UsedCurrency(code) == \E c \in master.companies : c.currency_code = code

\* C19: deleting a company that at least one user references, or a currency
\* that at least one company references by currency_code, is rejected with a
\* conflict error and leaves the master store unchanged; deleting a company id
\* that does not exist returns a not-found error.
C19_DeletesBlocked ==
    \A presented \in Presented, id \in MasterInputs.ids, code \in MasterInputs.codes :
        LET auth == Credentials(master, presented)
            company == DeleteCompany(master, auth, id)
            currency == DeleteCurrency(master, auth, code)
        IN CanPresent(master, presented) =>
             /\ (AdminRoute(auth) = 0 /\ Referenced(id))
                   => company.status = 400 /\ company.master = master
             /\ (AdminRoute(auth) = 0 /\ ~\E c \in master.companies : c.id = id)
                   => company.status = 404 /\ company.master = master
             /\ (TokenRoute(auth) = 0 /\ UsedCurrency(code))
                   => currency.status = 400 /\ currency.master = master

\* An administrator is refused the delete of a company with a user, of the
\* currency that company uses, and of a company id that is not there
C19_Witness ==
    \E presented \in Presented, id, missing \in MasterInputs.ids,
       code \in MasterInputs.codes :
        LET auth == Credentials(master, presented)
        IN /\ CanPresent(master, presented)
           /\ AdminRoute(auth) = 0
           /\ Referenced(id)
           /\ UsedCurrency(code)
           /\ DeleteCompany(master, auth, id).status = 400
           /\ DeleteCurrency(master, auth, code).status = 400
           /\ DeleteCompany(master, auth, missing).status = 404

----------------------------------------------------------------------------
(* Who may change the master store, stated under SpecMaster *)

\* A system administrator: role admin and no company_id
SystemAdministrator(user) == user.role = "admin" /\ user.company_id = Undefined

Forbidden(r) == r.status \in {401, 403} /\ r.master = master

\* C20: only a system administrator (role admin, no company_id) can create,
\* update or delete companies, users and currencies; the same request by any
\* other authenticated user, the admin of a registered company included, is
\* refused and leaves the master store unchanged.
C20_SystemAdministratorOnly ==
    \A body \in MasterInputs.logins :
        LET login == Login(master, body)
            auth == Bearer(login.body.token)
            in == MasterInputs
        IN (login.status = 200 /\ ~SystemAdministrator(login.body.token)) =>
             /\ \A company \in in.companies :
                   /\ Forbidden(CreateCompany(master, auth, company))
                   /\ \A id \in in.ids : Forbidden(UpdateCompany(master, auth, id, company))
             /\ \A id \in in.ids :
                   /\ Forbidden(DeleteCompany(master, auth, id))
                   /\ Forbidden(DeleteUser(master, auth, id))
             /\ \A foreignKeys \in BOOLEAN :
                   /\ \A user \in in.users :
                         Forbidden(CreateUser(master, auth, user, foreignKeys))
                   /\ \A id \in in.ids, user \in in.userUpdates :
                         Forbidden(UpdateUser(master, auth, id, user, foreignKeys))
             /\ \A currency \in in.currencies :
                   /\ Forbidden(CreateCurrency(master, auth, currency))
                   /\ \A code \in in.codes :
                         Forbidden(UpdateCurrency(master, auth, code, currency))
             /\ \A code \in in.codes : Forbidden(DeleteCurrency(master, auth, code))

----------------------------------------------------------------------------
(* The latest number past three digits, stated on tenant 1's store under
   SpecSequence *)

March == <<"2025", "03">>
MarchCommitments ==
    IF TenantPath("1") \in DOMAIN files
    THEN {c \in files[TenantPath("1")].commitments : LikePrefix(c.commit_number, March)}
    ELSE {}

\* C21: the highest commit_number of a month by string comparison is the one
\* with the numerically largest sequence, for every number of commitments in
\* the month, past 999 included; so createCommitment never computes a sequence
\* that already exists.
C21_LatestIsLargest ==
    /\ \A latest \in Latest(MarchCommitments, March) :
          \A c \in MarchCommitments :
              ParseInt(c.commit_number[3]) <= ParseInt(latest.commit_number[3])
    /\ \A c \in MarchCommitments :
          c.commit_number # GeneratedCommitNumber(MarchCommitments, MarchBody.due_date,
                                                 tzOffset)

----------------------------------------------------------------------------
(* Status transitions of recordPayment, stated on tenant 1's store under
   SpecLedger *)

\* C22: recordPayment changes a commitment's status only from active to
\* completed; a payment recorded against a commitment that is cancelled or
\* already completed leaves its status unchanged, whatever the payments sum to.
C22_OnlyActiveCompletes ==
    \A caller \in LedgerCallers, body \in LedgerInputs.payments, foreignKeys \in BOOLEAN :
        LET r == RecordPayment(Registry, caller[1], caller[2], body, foreignKeys)
        IN \A c \in Before.commitments, d \in After(r).commitments :
              (c.id = d.id /\ c.status # d.status)
                 => c.status = StatusActive /\ d.status = StatusCompleted

\* C23: in every reachable state of a tenant store, every commitment whose
\* payments sum to at least its amount has status completed, also after
\* updateCommitment changed its amount or status and for commitments created
\* with an explicit status.
C23_PaidIsCompleted ==
    \A c \in Before.commitments :
        PaidFor(Before, c.id) >= c.amount => c.status = StatusCompleted

----------------------------------------------------------------------------
(* Validation of amounts and statuses, stated under SpecValidation *)

Statuses == {StatusActive, StatusCompleted, StatusCancelled}

\* The amount is missing, zero or negative
BadAmount(amount) == IF amount = NullInt THEN TRUE ELSE amount[1] <= 0

\* C24: in every reachable state every stored commitment has a positive amount
\* and a status among active, completed, cancelled, and every stored payment
\* has a positive amount: createCommitment, updateCommitment and recordPayment
\* reject a zero, negative or missing amount and an unknown status without
\* changing state.
C24_ValidRows ==
    /\ \A q \in DOMAIN files :
          /\ \A c \in files[q].commitments : c.amount > 0 /\ c.status \in Statuses
          /\ \A x \in files[q].payments : x.amount > 0
    /\ \A caller \in ValidationCallers :
          /\ \A body \in ValidationInputs.creates :
                LET r == CreateCommitment(Registry, tzOffset, clock, caller[1], caller[2],
                                          body)
                IN (BadAmount(body.amount) \/ body.status \notin Statuses \cup {Undefined})
                      => r.status >= 400 /\ NothingChanged(r)
          /\ \A id \in ValidationInputs.ids, body \in ValidationInputs.updates :
                LET r == UpdateCommitment(Registry, caller[1], caller[2], id, body)
                IN (BadAmount(body.amount) \/ body.status \notin Statuses)
                      => r.status >= 400 /\ NothingChanged(r)
          /\ \A body \in ValidationInputs.payments, foreignKeys \in BOOLEAN :
                LET r == RecordPayment(Registry, caller[1], caller[2], body, foreignKeys)
                IN BadAmount(body.amount) => r.status >= 400 /\ NothingChanged(r)

----------------------------------------------------------------------------
(* Commitment ids that name no row, stated on tenant 1's store under SpecLedger *)

\* C25: updateCommitment or deleteCommitment addressed to a commitment id that
\* does not exist in the tenant store returns a not-found error, not a success
\* response, and leaves the tenant store unchanged.
C25_MissingIdNotFound ==
    \A caller \in LedgerCallers, id \in LedgerInputs.ids :
        (~\E c \in Before.commitments : c.id = id) =>
            /\ \A body \in LedgerInputs.updates :
                  LET r == UpdateCommitment(Registry, caller[1], caller[2], id, body)
                  IN r.status = 404 /\ NothingChanged(r)
            /\ LET r == DeleteCommitment(Registry, caller[1], caller[2], id)
               IN r.status = 404 /\ NothingChanged(r)

----------------------------------------------------------------------------
(* Referential integrity, stated under SpecLedger *)

\* C26: in every reachable state of a tenant store, every payment's
\* commitment_id is the id of a commitment of the same store; no sequence of
\* createCommitment, updateCommitment, deleteCommitment and recordPayment
\* leaves a payment without its commitment.
C26_PaymentsHaveCommitment ==
    \A q \in DOMAIN files :
        \A x \in files[q].payments :
            \E c \in files[q].commitments : c.id = x.commitment_id

\* Commitment 1 has a payment and its delete is refused; commitment 2 was
\* created and deleted, and a payment naming it is refused on a connection
\* that does not enforce foreign keys
C26_Witness ==
    /\ \E x \in Before.payments : x.commitment_id = 1
    /\ DeleteCommitment(Registry, CompanyUser, Undefined, 1).status = 400
    /\ Before.seq.commitments = 2
    /\ ~\E c \in Before.commitments : c.id = 2
    /\ \E body \in LedgerInputs.payments :
          /\ Complete(body)
          /\ body.commitment_id = <<2>>
          /\ RecordPayment(Registry, CompanyUser, Undefined, body, FALSE).status = 500

----------------------------------------------------------------------------
(* Reuse of numbers, stated under SpecNumbering *)

\* C27: a commit_number is never reused within a tenant: over any sequence of
\* createCommitment and deleteCommitment, a number once assigned to a commitment
\* is never assigned to a different commitment created later, even after the
\* first one was deleted.
C27_NumbersNotReused ==
    \A i, j \in 1..Len(created) :
        (i < j /\ created[i].store = created[j].store)
            => created[i].commit_number # created[j].commit_number

----------------------------------------------------------------------------
(* Numbers and due dates, stated on tenant 1's store under SpecNumbering *)

\* The ids and the numbers of the commitments of a store
Numbered(store) == {<<c.id, c.commit_number>> : c \in store.commitments}

\* C28: in every reachable state the YYYY-MM prefix of each commitment's
\* commit_number equals the year and month of that commitment's current
\* due_date; updateCommitment never changes a commitment's commit_number or id.
C28_PrefixFollowsDueDate ==
    /\ \A c \in Before.commitments :
          Parseable(c.due_date)
             => <<c.commit_number[1], c.commit_number[2]>> = DueMonth(c.due_date)
    /\ \A caller \in NumberingCallers, id \in NumberingInputs.ids,
          body \in NumberingInputs.updates :
          LET r == UpdateCommitment(Registry, caller[1], caller[2], id, body)
          IN Numbered(After(r)) = Numbered(Before)

----------------------------------------------------------------------------
(* The store of a new company, stated under SpecDirectory *)

\* The tenant store a company id resolves to holds no row
FreshStore(id) ==
    Tables(files, TenantPath(ToString(id))) = [commitments |-> {}, payments |-> {}]

\* The id was given to no company before
UnusedId(id) ==
    /\ id > master.seq.companies
    /\ \A c \in master.companies : c.id # id

\* The path is the store of a company of the directory
CompanyPath(q) == \E c \in master.companies : q = TenantPath(ToString(c.id))

\* The response created or changed only stores of existing companies
OnlyCompanyStores(r) ==
    \A q \in DOMAIN r.reg.files :
        (q \notin DOMAIN files \/ r.reg.files[q] # StoreAt(files, q)) => CompanyPath(q)

\* C29: when a company is created, by registration or by an admin, the tenant
\* store its new id resolves to holds no commitments and no payments: company
\* ids are never reused after a delete, and no ledger operation creates or
\* populates a tenant store for an id that is not that of an existing company.
C29_NewCompanyStoreEmpty ==
    /\ \A body \in DirectoryCompanies :
          LET r == CreateCompany(master, Credentials(master, DirectoryAdmin), body)
          IN r.status = 200 => UnusedId(r.body.id) /\ FreshStore(r.body.id)
    /\ \A body \in DirectoryRegisters :
          LET r == Register(master, body)
          IN r.status = 200 =>
                UnusedId(r.master.seq.companies) /\ FreshStore(r.master.seq.companies)
    /\ \A caller \in DirectoryCallers :
          /\ OfListResponses(caller[1], caller[2], OnlyCompanyStores)
          /\ OfOtherLedgerResponses(caller[1], caller[2], OnlyCompanyStores)

----------------------------------------------------------------------------
(* Initialisation of the master store, stated under SpecBoot *)

HasAdmin(db) == \E u \in db.users : u.username = "admin"

\* What a boot of a new process leaves in master.db
Booted == InitMasterDbCall(<<>>, master, boots + 1).master

\* C30: initMasterDb seeds the nine default currencies only when the currencies
\* table is empty and the admin user only when no user is named admin; called
\* again in the same process it returns the same handle without writing, and a
\* boot over a store that already holds currencies and an admin user adds,
\* changes and removes no row.
C30_InitIdempotent ==
    /\ Booted.currencies =
          IF master.currencies = {}
          THEN {CurrencyRow(code, "name_ar", "name_en", "symbol") : code \in DefaultCurrencies}
          ELSE master.currencies
    /\ Cardinality(DefaultCurrencies) = 9
    /\ IF HasAdmin(master) THEN Booted.users = master.users
       ELSE \E u \in Booted.users :
               /\ u.username = "admin"
               /\ u.role = "admin"
               /\ u \notin master.users
               /\ Booted.users = master.users \cup {u}
    /\ Booted.companies = master.companies
    /\ masterDb # <<>>
          => InitMasterDbCall(masterDb, master, boots)
                = [masterDb |-> masterDb, master |-> master]
    /\ (master.currencies # {} /\ HasAdmin(master)) => Booted = master

\* A later process runs on a store that has an admin user and some, not all, of
\* the default currencies
C30_Witness ==
    /\ boots > 1
    /\ masterDb = <<boots>>
    /\ HasAdmin(master)
    /\ master.currencies # {}
    /\ \E code \in DefaultCurrencies : \A x \in master.currencies : x.code # code

====
